---------------------------- MODULE Spec2Model ----------------------------
(***************************************************************************)
(* A model of the recycle convergence engine of biosteam's System          *)
(* (src/biosteam/_system.py).                                              *)
(*                                                                         *)
(* Numbers.  Flows and temperatures are floats in the source; the model    *)
(* keeps them on an integer grid of 1e-16 (kmol/hr for flows, K for        *)
(* temperatures), the finest magnitude the source compares against, so     *)
(* the two literals of _iter_run are NoiseFloor = 1 (1e-16) and            *)
(* RelGuard = 10000 (1e-12).  Relative errors and relative tolerances are  *)
(* exact fractions [n, d], compared by cross-multiplication.  The          *)
(* tolerances are instance attributes, configured on the same grid.        *)
(***************************************************************************)
EXTENDS Integers, Sequences, FiniteSets, TLC

(***************************************************************************)
(* Arithmetic helpers.                                                     *)
(***************************************************************************)
Abs(x) == IF x < 0 THEN -x ELSE x

Max2(a, b) == IF a < b THEN b ELSE a

MaxOf(S) == CHOOSE m \in S : \A y \in S : y <= m

Rat(n, d) == [n |-> n, d |-> d]

RatZero == Rat(0, 1)

RECURSIVE FracLess(_, _, _, _)
\* an/ad < bn/bd for naturals with ad, bd > 0, by comparing the integer parts and
\* then the inverted remainders (no product is formed, so nothing overflows).
FracLess(an, ad, bn, bd) ==
    IF an \div ad # bn \div bd THEN an \div ad < bn \div bd
    ELSE IF bn % bd = 0 THEN FALSE
    ELSE IF an % ad = 0 THEN TRUE
    ELSE FracLess(bd, bn % bd, ad, an % ad)

RatLess(a, b) == FracLess(a.n, a.d, b.n, b.d)

RatEq(a, b) == ~RatLess(a, b) /\ ~RatLess(b, a)

RatMax(S) == CHOOSE r \in S : \A q \in S : ~RatLess(r, q)

(***************************************************************************)
(* Components of a recycle flow vector (recycle.imol.data).                *)
(***************************************************************************)
Comps == {1, 2}

\* mol_errors > 1e-16 (_iter_run)
NoiseFloor == 1

\* mol_error > 1e-12 (_iter_run)
RelGuard == 10000

\* thermosteam's functional.infeasible is not part of the sources; the
\* tolerance below is the "small numerical tolerance" of the specification,
\* placed between its two examples (-1e-14 is noise, -1.0 is infeasible).
InfeasibleTol == 1000

infeasible(material) == \E c \in Comps : material[c] < -InfeasibleTol

\* material[material < 0.] = 0.
clip_negative(material) ==
    [c \in Comps |-> IF material[c] < 0 THEN 0 ELSE material[c]]

check_recycle_feasibility_noclip(material) ==
    IF infeasible(material)
    THEN [raised |-> TRUE, material |-> material]
    ELSE [raised |-> FALSE, material |-> material]

\* check_recycle_feasibility: raises InfeasibleRegion, else clips in place.
check_recycle_feasibility(material) ==
    IF infeasible(material)
    THEN [raised |-> TRUE, material |-> material]
    ELSE [raised |-> FALSE, material |-> clip_negative(material)]

(***************************************************************************)
(* The error measures of _iter_run.                                        *)
(***************************************************************************)
mol_errors_signed(mol, mol_new) == [c \in Comps |-> mol[c] - mol_new[c]]

mol_errors(mol, mol_new) == [c \in Comps |-> Abs(mol[c] - mol_new[c])]

positive_index(mol, mol_new) ==
    {c \in Comps : mol_errors(mol, mol_new)[c] > NoiseFloor}

flow_error_nofloor(mol, mol_new) ==
    MaxOf({mol_errors(mol, mol_new)[c] : c \in Comps})

\* self._mol_error
flow_error(mol, mol_new) ==
    IF positive_index(mol, mol_new) = {} THEN 0
    ELSE MaxOf({mol_errors(mol, mol_new)[c] : c \in positive_index(mol, mol_new)})

\* self._rmol_error
relative_flow_error(mol, mol_new) ==
    IF positive_index(mol, mol_new) = {} THEN RatZero
    ELSE IF flow_error(mol, mol_new) > RelGuard
         THEN RatMax({Rat(mol_errors(mol, mol_new)[c],
                          Max2(Abs(mol[c]), Abs(mol_new[c])))
                      : c \in positive_index(mol, mol_new)})
         ELSE RatZero

\* self._T_error = np.abs(T - T_new).max()
temperature_error(T, T_new) == Abs(T - T_new)

\* self._rT_error = (T_errors / T).max(): divided by the old temperature
relative_temperature_error(T, T_new) == Rat(Abs(T - T_new), T)

criterion_always_met(me, rme, Te, rTe, tol) == TRUE

criterion_beyond(me, rme, Te, rTe, tol) ==
    /\ (me > tol.mol \/ RatLess(tol.rmol, rme))
    /\ (Te < tol.T \/ RatLess(rTe, tol.rT))

criterion_and_only_abs(me, rme, Te, rTe, tol) ==
    me < tol.mol /\ Te < tol.T

\* The convergence test of _iter_run (not (...) is not_converged).
criterion(me, rme, Te, rTe, tol) ==
    /\ (me < tol.mol \/ RatLess(rme, tol.rmol))
    /\ (Te < tol.T \/ RatLess(rTe, tol.rT))

budget_spent_off_by_one(iter, maxiter) == iter > maxiter

budget_spent_at_twice(iter, maxiter) == iter >= 2 * maxiter

\* self._iter >= self.maxiter, read after self._iter += 1
budget_spent(iter, maxiter) == iter >= maxiter

(***************************************************************************)
(* The part of _iter_run after self._run(): errors, the counter, the test  *)
(* and the budget.  mol is the (already clipped) argument, mol_new and     *)
(* T_new what the recycle holds after the path ran, iter the counter       *)
(* before this iterate.  raised = "RuntimeError" is the strict failure.    *)
(***************************************************************************)
iter_test(mol, mol_new, T, T_new, tol, iter, maxiter, strict) ==
    LET me  == flow_error(mol, mol_new)
        rme == relative_flow_error(mol, mol_new)
        Te  == temperature_error(T, T_new)
        rTe == relative_temperature_error(T, T_new)
        nc  == ~criterion(me, rme, Te, rTe, tol)
        spent == nc /\ budget_spent(iter + 1, maxiter)
    IN  [mol_error |-> me, rmol_error |-> rme,
         T_error |-> Te, rT_error |-> rTe,
         iter |-> iter + 1,
         met |-> ~nc,
         raised |-> spent /\ strict,
         not_converged |-> IF spent THEN FALSE ELSE nc]

(***************************************************************************)
(* The flowsheet.  One System "main" is simulated; its path holds the      *)
(* units U1 and B, the nested System "sub" (path <<A>>, its own recycle)   *)
(* and, in some flowsheets, the callable hook H.  Its facilities are the   *)
(* Facility unit F1 and the boiler BT.  A and B expose _steady_run.        *)
(* When a facility recycle is given to the constructor,                    *)
(* _set_facility_recycle makes the facility loop: the downstream System    *)
(* "floop" (when main has no recycle) or main itself (when it has one).    *)
(***************************************************************************)
Sys == {"main", "sub", "floop"}

Units == {"U1", "A", "B", "F1", "BT"}

Hooks == {"H"}

\* hasattr(i, '_steady_run')
SteadyUnits == {"A", "B"}

\* isinstance(i, (bst.BoilerTurbogenerator, bst.Boiler))
Boilers == {"BT"}

\* The isinstance dispatch of _run and _summary.
Kind(e) == IF e \in Units THEN "Unit" ELSE IF e \in Sys THEN "System" ELSE "Function"

Exceptions == {"InfeasibleRegion", "RuntimeError", "IndexError", "AttributeError"}

\* Bound: the iteration budget given to every System (maxiter).
MaxIter == 3

\* Bound: how many times simulate() is called in one behaviour.
MaxSims == 2

\* Bound: how many times a unit's run may fail with an IndexError.
MaxFaults == 2

\* Bound: the largest magnitude of a flow: of a guess the solver extrapolates and
\* of what a path can send to its recycle.
MaxFlow == 700000

VARIABLES
    path,               \* System._path
    facilities,         \* System._facilities
    facility_loop,      \* main._facility_loop: "none" or a System
    isFacilityLoop,     \* type(system) is FacilityLoop
    recycle,            \* whether System._recycle holds a stream
    tear,               \* the unit whose run writes the System's recycle stream
    N_runs,             \* System._N_runs (0 for None)
    specification,      \* whether System._specification is set
    stabilized,         \* System._stabilized
    strict_convergence, \* System.strict_convergence
    maxiter,            \* System.maxiter
    tol,                \* the four tolerances of a System
    resp,               \* how the path answers a recycle guess (fixed per flowsheet)
    steady,             \* what _steady_run does to a recycle: "same" or "hold"
    rec,                \* the recycle stream of a System: [mol, T]
    product,            \* the product stream leaving main's last unit
    iter,               \* System._iter
    errors,             \* _mol_error, _rmol_error, _T_error, _rT_error
    unitRun,            \* which _run a steady unit has: "class" or "steady"
    simpc,              \* where simulate() of main is
    stack,              \* the active _converge / _summary calls
    cv,                 \* the locals of each System's _converge call
    sm,                 \* the locals of each System's _summary call
    exc,                \* the exception in flight, or "none"
    faults,             \* unit failures still to come
    nSim,               \* simulate() calls made
    facRuns,            \* per facility: simulations in the current simulate()
    facInLoop,          \* a facility was simulated while main's recycle iterated
    log,                \* the stages simulate() entered, in order
    lastMode,           \* the _run a steady unit used on its last run
    before,             \* main's recycle flows when simulate() was called
    firstMet,           \* whether the first iterate of main's convergence met the test
    mainMet,            \* whether the last iterate of main met the test
    prevConverged,      \* main's last iterate had met the test when simulate() was called
    probe,              \* the inputs of one convergence test (SpecIter)
    outcome             \* its result (SpecIter)

sysvars == <<path, facilities, facility_loop, isFacilityLoop, recycle, tear, N_runs,
             specification, stabilized, strict_convergence, maxiter, tol, resp, steady,
             rec, product, iter, errors, unitRun, simpc, stack, cv, sm, exc,
             faults, nSim, facRuns, facInLoop, log, lastMode, before, firstMet,
             mainMet, prevConverged>>

vars == <<sysvars, probe, outcome>>

(***************************************************************************)
(* Values.                                                                 *)
(***************************************************************************)
Vec(a, b) == [c \in Comps |-> IF c = 1 THEN a ELSE b]

Zero == Vec(0, 0)

Min2(a, b) == IF a <= b THEN a ELSE b

\* A path's answer to a recycle guess x: out + (feed + x) * num / den per component,
\* up to the capacity of the path.
Answer(r, x) ==
    [c \in Comps |-> Min2(MaxFlow, r.out[c] + ((r.feed[c] + x[c]) * r.num) \div r.den)]

\* A mixer adding the feed to the recycle, then a splitter recycling half.
RespMix == [out |-> Zero, feed |-> Vec(160000, 0), num |-> 1, den |-> 2]

\* No feed; a splitter recycling a quarter.
RespDecay == [out |-> Zero, feed |-> Zero, num |-> 1, den |-> 4]

\* A unit that doubles what it is given (it does not conserve moles).
RespDouble == [out |-> Zero, feed |-> Zero, num |-> 2, den |-> 1]

\* A unit whose outlet does not depend on the recycle.
RespConst(v) == [out |-> v, feed |-> Zero, num |-> 0, den |-> 1]

TolLoose == [mol |-> 50000, rmol |-> Rat(1, 100), T |-> 10, rT |-> Rat(1, 1000)]

TolTight == [mol |-> 15000, rmol |-> Rat(1, 5), T |-> 10, rT |-> Rat(1, 1000)]

\* The temperature a unit gives the recycle it writes, and the one it starts with.
TOut == 30000

TStart == 30005

NoErrors == [mol_error |-> 0, rmol_error |-> RatZero, T_error |-> 0, rT_error |-> RatZero]

\* r0 and raw are kept for the properties only: the recycle flows when the solver
\* called f, and the vector _iter_run was given.
CvOff == [pc |-> "off", n |-> 0, attempt |-> 0, lvl |-> "none", x |-> Zero, xo |-> Zero,
          T |-> 0, g |-> Zero, cond |-> FALSE, idx |-> 0, trace |-> <<>>,
          r0 |-> Zero, raw |-> Zero]

SmOff == [pc |-> "off", idx |-> 0]

NoProbe == [mol |-> Zero, mol_new |-> Zero, T |-> 1, T_new |-> 1, tol |-> TolLoose,
            iter |-> 0, maxiter |-> 1, strict |-> TRUE]

NoOutcome == [done |-> FALSE, raised |-> "none", mol |-> Zero, mol_error |-> 0,
              rmol_error |-> RatZero, T_error |-> 0, rT_error |-> RatZero,
              iter |-> 0, not_converged |-> FALSE]

(***************************************************************************)
(* Flowsheets: what the constructor leaves.  kind is                       *)
(*   "recycle"   main has a process recycle (written by B), no facility    *)
(*               recycle;                                                  *)
(*   "floop"     main has no recycle and a facility recycle whose sink is  *)
(*               B: _downstream_system(B) is a new System with path <<B>>  *)
(*               and main's facilities, made a FacilityLoop;               *)
(*   "selfloop"  main has a recycle and a facility recycle:                *)
(*               _downstream_system returns main itself, which becomes the *)
(*               FacilityLoop with the facility recycle (written by F1);   *)
(*   "plain"     main has neither (N_runs may be given).                   *)
(***************************************************************************)
Kinds == {"recycle", "floop", "selfloop", "plain"}

MainPath(hook) == IF hook THEN <<"U1", "sub", "H", "B">> ELSE <<"U1", "sub", "B">>

InitialRecycles ==
    {Vec(0, 0), Vec(80000, 0), Vec(80000, -100), Vec(240000, 0), Vec(-30000, 0)}

Responses == {RespMix, RespDecay, RespDouble}

\* The structural flowsheets: every kind, with and without the hook, the nested
\* System's specification, strictness and unit failures; numbers fixed.
StructuralFlowsheets ==
    [kind : Kinds, hook : BOOLEAN, spec : BOOLEAN, strict : BOOLEAN,
     faults : {0, MaxFaults}, nruns : {0}, resp : {RespMix}, tol : {TolLoose},
     mol0 : {Vec(0, 0)}, steady : {"same"}]
    \cup
    [kind : {"plain"}, hook : {FALSE}, spec : BOOLEAN, strict : {TRUE},
     faults : {0}, nruns : {2}, resp : {RespMix}, tol : {TolLoose}, mol0 : {Vec(0, 0)},
     steady : {"same"}]

\* The numeric flowsheets: one recycle loop, every answer, start and tolerance.
NumericFlowsheets ==
    [kind : {"recycle"}, hook : {FALSE}, spec : {FALSE}, strict : BOOLEAN,
     faults : {0}, nruns : {0}, resp : Responses, tol : {TolLoose, TolTight},
     mol0 : InitialRecycles, steady : {"same", "hold"}]

\* The same loop with a unit that fails once, for what _solve's retry meets.
FaultyFlowsheets ==
    [kind : {"recycle"}, hook : {FALSE}, spec : {FALSE}, strict : BOOLEAN,
     faults : {1}, nruns : {0}, resp : {RespDecay, RespDouble}, tol : {TolLoose},
     mol0 : {Vec(80000, 0)}, steady : {"same", "hold"}]

Flowsheets == StructuralFlowsheets \cup NumericFlowsheets \cup FaultyFlowsheets

InitSystemWith(F) ==
    \E f \in F :
        /\ path = [s \in Sys |->
                      CASE s = "main" -> MainPath(f.hook)
                        [] s = "sub" -> <<"A">>
                        [] OTHER -> IF f.kind = "floop" THEN <<"B">> ELSE <<>>]
        /\ facilities = [s \in Sys |->
                      CASE s = "main" -> <<"F1", "BT">>
                        [] s = "sub" -> <<>>
                        [] OTHER -> IF f.kind = "floop" THEN <<"F1", "BT">> ELSE <<>>]
        /\ facility_loop = CASE f.kind = "floop" -> "floop"
                             [] f.kind = "selfloop" -> "main"
                             [] OTHER -> "none"
        /\ isFacilityLoop = [s \in Sys |->
                                \/ (s = "floop" /\ f.kind = "floop")
                                \/ (s = "main" /\ f.kind = "selfloop")]
        /\ recycle = [s \in Sys |->
                      CASE s = "main" -> f.kind \in {"recycle", "selfloop"}
                        [] s = "sub" -> TRUE
                        [] OTHER -> f.kind = "floop"]
        /\ tear = [s \in Sys |->
                      CASE s = "main" -> (IF f.kind = "recycle" THEN "B"
                                          ELSE IF f.kind = "selfloop" THEN "F1" ELSE "none")
                        [] s = "sub" -> "A"
                        [] OTHER -> IF f.kind = "floop" THEN "F1" ELSE "none"]
        /\ N_runs = [s \in Sys |-> IF s = "main" THEN f.nruns ELSE 0]
        /\ specification = [s \in Sys |-> s = "sub" /\ f.spec]
        /\ strict_convergence = f.strict
        /\ tol = [s \in Sys |-> f.tol]
        /\ resp = [s \in Sys |->
                      CASE s = "main" -> (IF f.kind = "recycle" THEN f.resp
                                          ELSE RespConst(Vec(60000, 0)))
                        [] s = "sub" -> RespConst(Vec(30000, 0))
                        [] OTHER -> RespConst(Vec(60000, 0))]
        /\ rec = [s \in Sys |->
                      [mol |-> IF s = "main" THEN f.mol0 ELSE Zero, T |-> TStart]]
        /\ faults = f.faults
        /\ steady = f.steady
    /\ stabilized = [s \in Sys |-> FALSE]
    /\ maxiter = [s \in Sys |-> MaxIter]
    /\ product = Zero
    /\ iter = [s \in Sys |-> 0]
    /\ errors = [s \in Sys |-> NoErrors]
    /\ unitRun = [u \in SteadyUnits |-> "class"]
    /\ simpc = "idle"
    /\ stack = <<>>
    /\ cv = [s \in Sys |-> CvOff]
    /\ sm = [s \in Sys |-> SmOff]
    /\ exc = "none"
    /\ nSim = 0
    /\ facRuns = [u \in Units |-> 0]
    /\ facInLoop = FALSE
    /\ log = <<>>
    /\ lastMode = [u \in SteadyUnits |-> "never"]
    /\ before = Zero
    /\ firstMet = "unknown"
    /\ mainMet = "unknown"
    /\ prevConverged = FALSE

InitSystem == InitSystemWith(Flowsheets)

Init == InitSystem /\ probe = NoProbe /\ outcome = NoOutcome

(***************************************************************************)
(* Properties of a System computed from its path.                          *)
(***************************************************************************)
\* System.subsystems
subsystems(s) == {path[s][i] : i \in {j \in DOMAIN path[s] : Kind(path[s][j]) = "System"}}

\* s and every System below it: what _reset_iter and the setter of
\* use_stabilized_convergence_algorithm walk through.
RECURSIVE below(_)
below(s) == {s} \cup UNION {below(t) : t \in subsystems(s)}

RECURSIVE unit_path(_)
\* The units of a sequence of path elements, nested Systems opened, in order.
unit_path(elems) ==
    IF elems = <<>> THEN <<>>
    ELSE LET e == Head(elems)
             rest == unit_path(Tail(elems))
         IN  CASE Kind(e) = "Unit" -> <<e>> \o rest
               [] Kind(e) = "System" -> unit_path(path[e] \o facilities[e]) \o rest
               [] OTHER -> rest

RECURSIVE without_repetitions(_, _)
without_repetitions(seq, seen) ==
    IF seq = <<>> THEN <<>>
    ELSE IF Head(seq) \in seen THEN without_repetitions(Tail(seq), seen)
         ELSE <<Head(seq)>> \o without_repetitions(Tail(seq), seen \cup {Head(seq)})

\* System.units
units(s) == without_repetitions(unit_path(path[s] \o facilities[s]), {})

IsSteady(u) == u \in SteadyUnits

\* [i for i in self.units if hasattr(i, '_steady_run')]
special_units(s) == SelectSeq(units(s), IsSteady)

(***************************************************************************)
(* The setter of use_stabilized_convergence_algorithm.                     *)
(***************************************************************************)
RECURSIVE set_stabilized(_, _, _)
set_stabilized(st, s, v) ==
    LET inner == IF v /\ ~recycle[s] THEN TRUE ELSE FALSE
        walk[todo \in SUBSET subsystems(s)] ==
            IF todo = {} THEN st
            ELSE LET t == CHOOSE t \in todo : TRUE
                 IN  set_stabilized(walk[todo \ {t}], t, inner)
    IN  [walk[subsystems(s)] EXCEPT ![s] = v]

Exists(s) == s \in below("main") \/ s = facility_loop

SetStabilized(s, v) ==
    /\ simpc = "idle" /\ nSim = 0
    /\ Exists(s)
    /\ stabilized' = set_stabilized(stabilized, s, v)
    /\ stabilized' # stabilized
    /\ UNCHANGED <<path, facilities, facility_loop, isFacilityLoop, recycle, tear,
                   N_runs, specification, strict_convergence, maxiter, tol, resp,
                   steady, rec, product, iter, errors, unitRun, simpc, stack, cv, sm, exc,
                   faults, nSim, facRuns, facInLoop, log, lastMode, before, firstMet,
                   mainMet, prevConverged, probe, outcome>>

(***************************************************************************)
(* The call stack.                                                         *)
(***************************************************************************)
Frame(k, s) == [k |-> k, s |-> s]

Top == stack[Len(stack)]

Pop == SubSeq(stack, 1, Len(stack) - 1)

\* The call at the top of the stack is k of s and nothing is being raised.
Running(k, s) == exc = "none" /\ stack # <<>> /\ Top = Frame(k, s)

\* The same while an exception unwinds.
Unwinding(k, s) == exc # "none" /\ stack # <<>> /\ Top = Frame(k, s)

config == <<path, facilities, facility_loop, isFacilityLoop, recycle, tear, N_runs,
            specification, stabilized, strict_convergence, maxiter, tol, resp, steady>>

(***************************************************************************)
(* simulate(): _setup, _converge, _summary, then the facility loop.        *)
(***************************************************************************)
Simulate ==
    /\ simpc \in {"idle", "done"}
    /\ nSim < MaxSims
    /\ simpc' = "converge"
    /\ stack' = <<Frame("converge", "main")>>
    /\ cv' = [cv EXCEPT !["main"] = [CvOff EXCEPT !.pc = "enter"]]
    /\ nSim' = nSim + 1
    /\ facRuns' = [u \in Units |-> 0]
    /\ facInLoop' = FALSE
    /\ log' = <<"converge">>
    /\ before' = rec["main"].mol
    /\ firstMet' = "unknown"
    /\ prevConverged' = (mainMet = "yes")
    /\ UNCHANGED <<config, rec, product, iter, errors, unitRun, sm, exc, faults,
                   lastMode, mainMet, probe, outcome>>

(***************************************************************************)
(* _converge: N_runs plain runs, or the convergence method, or one run.    *)
(* _solve begins with _reset_iter.                                         *)
(***************************************************************************)
reset_iter_shallow(it, s) == [it EXCEPT ![s] = 0]

\* _reset_iter: self._iter = 0, and the same for every subsystem.
reset_iter(it, s) == [t \in Sys |-> IF t \in below(s) THEN 0 ELSE it[t]]

ConvergeEnter(s) ==
    /\ Running("converge", s)
    /\ cv[s].pc = "enter"
    /\ IF N_runs[s] > 0
       THEN /\ cv' = [cv EXCEPT ![s] = [@ EXCEPT !.pc = "run", !.n = N_runs[s],
                                                 !.lvl = "plain", !.idx = 1]]
            /\ iter' = iter
       ELSE IF recycle[s]
       THEN /\ cv' = [cv EXCEPT ![s] = [@ EXCEPT !.pc = "solver", !.attempt = 1]]
            /\ iter' = reset_iter(iter, s)
       ELSE /\ cv' = [cv EXCEPT ![s] = [@ EXCEPT !.pc = "run", !.n = 1,
                                                 !.lvl = "plain", !.idx = 1]]
            /\ iter' = iter
    /\ UNCHANGED <<config, rec, product, errors, unitRun, simpc, stack, sm, exc,
                   faults, nSim, facRuns, facInLoop, log, lastMode, before, firstMet,
                   mainMet, prevConverged, probe, outcome>>

\* solver(f, self._get_recycle_data()): the solver starts from a copy of the recycle.
SolverStart(s) ==
    /\ Running("converge", s)
    /\ cv[s].pc = "solver"
    /\ cv' = [cv EXCEPT ![s] = [@ EXCEPT !.pc = "f", !.xo = rec[s].mol]]
    /\ UNCHANGED <<config, rec, product, iter, errors, unitRun, simpc, stack, sm, exc,
                   faults, nSim, facRuns, facInLoop, log, lastMode, before, firstMet,
                   mainMet, prevConverged, probe, outcome>>

\* for unit in special_units: unit._run = unit._steady_run
substitute(ur, s) ==
    [u \in SteadyUnits |->
        IF \E i \in DOMAIN special_units(s) : special_units(s)[i] = u
        THEN "steady" ELSE ur[u]]

\* The solver calls f(x).  Unstabilized, f is _iter_run.  Stabilized with steady
\* units, f writes x to the recycle, substitutes _steady_run and enters the inner
\* solver on a copy of the recycle.
CallF(s) ==
    /\ Running("converge", s)
    /\ cv[s].pc = "f"
    /\ IF stabilized[s] /\ special_units(s) # <<>>
       THEN /\ rec' = [rec EXCEPT ![s].mol = cv[s].xo]
            /\ unitRun' = substitute(unitRun, s)
            /\ cv' = [cv EXCEPT ![s] = [@ EXCEPT !.pc = "iter", !.lvl = "inner",
                                                 !.x = cv[s].xo, !.raw = cv[s].xo,
                                                 !.r0 = rec[s].mol]]
       ELSE /\ cv' = [cv EXCEPT ![s] = [@ EXCEPT !.pc = "iter", !.lvl = "outer",
                                                 !.x = cv[s].xo, !.raw = cv[s].xo,
                                                 !.r0 = rec[s].mol]]
            /\ UNCHANGED <<rec, unitRun>>
    /\ UNCHANGED <<config, product, iter, errors, simpc, stack, sm, exc, faults, nSim,
                   facRuns, facInLoop, log, lastMode, before, firstMet,
                   mainMet, prevConverged, probe, outcome>>

(***************************************************************************)
(* _iter_run, first part: the feasibility check, then the recycle is       *)
(* written and its temperature read.                                       *)
(***************************************************************************)
IterBegin(s) ==
    /\ Running("converge", s)
    /\ cv[s].pc = "iter"
    /\ LET chk == check_recycle_feasibility(cv[s].x)
       IN  IF chk.raised
           THEN /\ exc' = "InfeasibleRegion"
                /\ UNCHANGED <<rec, cv>>
           ELSE /\ exc' = exc
                /\ rec' = [rec EXCEPT ![s].mol = chk.material]
                /\ cv' = [cv EXCEPT ![s] =
                            [@ EXCEPT !.pc = "run", !.x = chk.material,
                                      !.xo = IF cv[s].lvl = "outer" THEN chk.material
                                             ELSE @,
                                      !.T = rec[s].T, !.idx = 1, !.trace = <<>>]]
    /\ UNCHANGED <<config, product, iter, errors, unitRun, simpc, stack, sm, faults,
                   nSim, facRuns, facInLoop, log, lastMode, before, firstMet,
                   mainMet, prevConverged, probe, outcome>>

(***************************************************************************)
(* What running a unit does to the streams: the unit that writes a         *)
(* System's recycle replaces it by the path's answer to what the recycle   *)
(* held; main's last unit sends the rest to the product.                   *)
(***************************************************************************)
\* A unit running its _steady_run in a flowsheet where that holds the recycle.
Holds(u) == u \in SteadyUnits /\ unitRun[u] = "steady" /\ steady = "hold"

rec_after(u) ==
    [t \in Sys |-> IF tear[t] = u /\ ~Holds(u)
                   THEN [mol |-> Answer(resp[t], rec[t].mol), T |-> TOut]
                   ELSE rec[t]]

\* What enters the last unit and is not recycled leaves as product.
product_after(u) ==
    IF tear["main"] = u /\ u = "B"
    THEN [c \in Comps |-> resp["main"].feed[c] + rec["main"].mol[c]
                            - rec_after(u)["main"].mol[c]]
    ELSE product

mode_after(u) == IF u \in SteadyUnits THEN [lastMode EXCEPT ![u] = unitRun[u]] ELSE lastMode

(***************************************************************************)
(* _run: each path element in order.                                       *)
(***************************************************************************)
AtElement(s) ==
    /\ Running("converge", s)
    /\ cv[s].pc = "run"
    /\ cv[s].idx <= Len(path[s])

Element(s) == path[s][cv[s].idx]

Advance(s, tag) ==
    [cv EXCEPT ![s] = [@ EXCEPT !.idx = @ + 1, !.trace = Append(@, tag)]]

\* isa(i, Unit): run(i, i.run)
RunUnit(s) ==
    /\ AtElement(s)
    /\ Kind(Element(s)) = "Unit"
    /\ rec' = rec_after(Element(s))
    /\ product' = product_after(Element(s))
    /\ lastMode' = mode_after(Element(s))
    /\ cv' = Advance(s, <<Element(s), "run">>)
    /\ UNCHANGED <<config, iter, errors, unitRun, simpc, stack, sm, exc, faults, nSim,
                   facRuns, facInLoop, log, before, firstMet,
                   mainMet, prevConverged, probe, outcome>>

\* A unit's run fails with an IndexError (U1 indexes past an array).
RunUnitFails(s) ==
    /\ AtElement(s)
    /\ Element(s) = "U1"
    /\ faults > 0
    /\ faults' = faults - 1
    /\ exc' = "IndexError"
    /\ UNCHANGED <<config, rec, product, iter, errors, unitRun, simpc, stack, cv, sm,
                   nSim, facRuns, facInLoop, log, lastMode, before, firstMet,
                   mainMet, prevConverged, probe, outcome>>

converge_system_always_converge(t) == "_converge"

\* converge_system_in_path: the specification if there is one, else _converge.
converge_system_in_path(t) == IF specification[t] THEN "specification" ELSE "_converge"

\* isa(i, System): converge(i)
ConvergeSystemInPath(s) ==
    /\ AtElement(s)
    /\ Kind(Element(s)) = "System"
    /\ LET t == Element(s)
       IN  IF converge_system_in_path(t) = "specification"
           THEN /\ cv' = Advance(s, <<t, "specification">>)
                /\ stack' = stack
           ELSE /\ cv' = [cv EXCEPT ![s] = [@ EXCEPT !.trace = Append(@, <<t, "_converge">>)],
                                    ![t] = [CvOff EXCEPT !.pc = "enter"]]
                /\ stack' = Append(stack, Frame("converge", t))
    /\ UNCHANGED <<config, rec, product, iter, errors, unitRun, simpc, sm, exc, faults,
                   nSim, facRuns, facInLoop, log, lastMode, before, firstMet,
                   mainMet, prevConverged, probe, outcome>>

\* else: i()
CallFunction(s) ==
    /\ AtElement(s)
    /\ Kind(Element(s)) = "Function"
    /\ cv' = Advance(s, <<Element(s), "call">>)
    /\ UNCHANGED <<config, rec, product, iter, errors, unitRun, simpc, stack, sm, exc,
                   faults, nSim, facRuns, facInLoop, log, lastMode, before, firstMet,
                   mainMet, prevConverged, probe, outcome>>

\* The path is done.  FacilityLoop._run goes on with self._summary().
RunEnd(s) ==
    /\ Running("converge", s)
    /\ cv[s].pc = "run"
    /\ cv[s].idx > Len(path[s])
    /\ IF isFacilityLoop[s]
       THEN /\ cv' = [cv EXCEPT ![s] = [@ EXCEPT !.pc = "run_summary"]]
            /\ stack' = Append(stack, Frame("summary", s))
            /\ sm' = [sm EXCEPT ![s] = [pc |-> "path", idx |-> 1]]
       ELSE /\ cv' = [cv EXCEPT ![s] = [@ EXCEPT !.pc = "run_done"]]
            /\ UNCHANGED <<stack, sm>>
    /\ UNCHANGED <<config, rec, product, iter, errors, unitRun, simpc, exc, faults,
                   nSim, facRuns, facInLoop, log, lastMode, before, firstMet,
                   mainMet, prevConverged, probe, outcome>>

\* _run returns: to the N_runs loop or the single run of _converge, or to _iter_run.
RunReturn(s) ==
    /\ Running("converge", s)
    /\ cv[s].pc = "run_done"
    /\ cv' = [cv EXCEPT ![s] =
                IF cv[s].lvl = "plain"
                THEN IF cv[s].n > 1
                     THEN [@ EXCEPT !.pc = "run", !.n = @ - 1, !.idx = 1, !.trace = <<>>]
                     ELSE [@ EXCEPT !.pc = "return", !.n = 0]
                ELSE [@ EXCEPT !.pc = "iter_end"]]
    /\ UNCHANGED <<config, rec, product, iter, errors, unitRun, simpc, stack, sm, exc,
                   faults, nSim, facRuns, facInLoop, log, lastMode, before, firstMet,
                   mainMet, prevConverged, probe, outcome>>

(***************************************************************************)
(* _iter_run, second part: the errors, the counter, the test, the budget.  *)
(***************************************************************************)
IterEnd(s) ==
    /\ Running("converge", s)
    /\ cv[s].pc = "iter_end"
    /\ LET r == iter_test(cv[s].x, rec[s].mol, cv[s].T, rec[s].T, tol[s],
                          iter[s], maxiter[s], strict_convergence)
       IN  /\ errors' = [errors EXCEPT ![s] =
                            [mol_error |-> r.mol_error, rmol_error |-> r.rmol_error,
                             T_error |-> r.T_error, rT_error |-> r.rT_error]]
           /\ iter' = [iter EXCEPT ![s] = r.iter]
           /\ firstMet' = IF s = "main" /\ simpc = "converge" /\ iter[s] = 0
                          THEN (IF r.met THEN "yes" ELSE "no") ELSE firstMet
           /\ mainMet' = IF s = "main" THEN (IF r.met THEN "yes" ELSE "no") ELSE mainMet
           /\ IF r.raised
              THEN /\ exc' = "RuntimeError"
                   /\ cv' = cv
              ELSE /\ exc' = exc
                   /\ cv' = [cv EXCEPT ![s] = [@ EXCEPT !.pc = "ret", !.g = rec[s].mol,
                                                        !.cond = r.not_converged]]
    /\ UNCHANGED <<config, rec, product, unitRun, simpc, stack, sm, faults, nSim,
                   facRuns, facInLoop, log, lastMode, before, prevConverged,
                   probe, outcome>>

(***************************************************************************)
(* The solver (flexsolve's conditional_fixed_point, conditional_wegstein   *)
(* or conditional_aitken, chosen by _fixedpoint, _wegstein and _aitken):   *)
(* it calls f while f answers not_converged, and returns when it does not. *)
(* Its next guess is the new iterate g itself (fixed point) or an          *)
(* extrapolation through the last two points, 2g - x (the step of          *)
(* Wegstein's update for a slope of 1/2); the model lets it take either.   *)
(***************************************************************************)
Extrapolated(x, g) == [c \in Comps |-> 2 * g[c] - x[c]]

Guesses(x, g) ==
    {g} \cup {a \in {Extrapolated(x, g)} : \A c \in Comps : Abs(a[c]) <= MaxFlow}

RECURSIVE del_runs(_, _)
\* for unit in special_units: del unit._run -- deleting an instance attribute
\* that is not there raises AttributeError and ends the loop.
del_runs(ur, seq) ==
    IF seq = <<>> THEN [ur |-> ur, raised |-> FALSE]
    ELSE IF ur[Head(seq)] = "steady"
         THEN del_runs([ur EXCEPT ![Head(seq)] = "class"], Tail(seq))
         ELSE [ur |-> ur, raised |-> TRUE]

\* The inner solver of the stabilized f goes on.
InnerContinue(s) ==
    /\ Running("converge", s)
    /\ cv[s].pc = "ret" /\ cv[s].lvl = "inner" /\ cv[s].cond
    /\ \E nx \in Guesses(cv[s].x, cv[s].g) :
          cv' = [cv EXCEPT ![s] = [@ EXCEPT !.pc = "iter", !.x = nx, !.raw = nx,
                                            !.r0 = rec[s].mol]]
    /\ UNCHANGED <<config, rec, product, iter, errors, unitRun, simpc, stack, sm, exc,
                   faults, nSim, facRuns, facInLoop, log, lastMode, before, firstMet,
                   mainMet, prevConverged, probe, outcome>>

\* The inner solver returns: finally the substituted _run are deleted, then
\* return iter_run(self._get_recycle_data()).
InnerReturn(s) ==
    /\ Running("converge", s)
    /\ cv[s].pc = "ret" /\ cv[s].lvl = "inner" /\ ~cv[s].cond
    /\ LET d == del_runs(unitRun, special_units(s))
       IN  /\ unitRun' = d.ur
           /\ IF d.raised
              THEN /\ exc' = "AttributeError"
                   /\ cv' = [cv EXCEPT ![s] = [@ EXCEPT !.lvl = "outer"]]
              ELSE /\ exc' = exc
                   /\ cv' = [cv EXCEPT ![s] = [@ EXCEPT !.pc = "iter", !.lvl = "final",
                                                        !.x = rec[s].mol,
                                                        !.raw = rec[s].mol,
                                                        !.r0 = rec[s].mol]]
    /\ UNCHANGED <<config, rec, product, iter, errors, simpc, stack, sm, faults, nSim,
                   facRuns, facInLoop, log, lastMode, before, firstMet,
                   mainMet, prevConverged, probe, outcome>>

\* The solver of _solve goes on with its next guess.
OuterContinue(s) ==
    /\ Running("converge", s)
    /\ cv[s].pc = "ret" /\ cv[s].lvl \in {"outer", "final"} /\ cv[s].cond
    /\ \E nx \in Guesses(cv[s].xo, cv[s].g) :
          cv' = [cv EXCEPT ![s] = [@ EXCEPT !.pc = "f", !.xo = nx]]
    /\ UNCHANGED <<config, rec, product, iter, errors, unitRun, simpc, stack, sm, exc,
                   faults, nSim, facRuns, facInLoop, log, lastMode, before, firstMet,
                   mainMet, prevConverged, probe, outcome>>

\* f answered converged: the solver, _solve and the convergence method return.
SolverReturn(s) ==
    /\ Running("converge", s)
    /\ cv[s].pc = "ret" /\ cv[s].lvl \in {"outer", "final"} /\ ~cv[s].cond
    /\ cv' = [cv EXCEPT ![s] = [@ EXCEPT !.pc = "return"]]
    /\ UNCHANGED <<config, rec, product, iter, errors, unitRun, simpc, stack, sm, exc,
                   faults, nSim, facRuns, facInLoop, log, lastMode, before, firstMet,
                   mainMet, prevConverged, probe, outcome>>

(***************************************************************************)
(* _converge returns to its caller: simulate() (which goes on with         *)
(* _summary, or is done after the facility loop) or the _run of the        *)
(* System whose path holds this one.                                       *)
(***************************************************************************)
ConvergeReturn(s) ==
    /\ Running("converge", s)
    /\ cv[s].pc = "return"
    /\ IF Len(stack) = 1
       THEN IF simpc = "converge"
            THEN /\ simpc' = "summary"
                 /\ stack' = <<Frame("summary", "main")>>
                 /\ sm' = [sm EXCEPT !["main"] = [pc |-> "path", idx |-> 1]]
                 /\ log' = Append(log, "summary")
                 /\ cv' = [cv EXCEPT ![s] = CvOff]
            ELSE /\ simpc' = "done"
                 /\ stack' = <<>>
                 /\ cv' = [cv EXCEPT ![s] = CvOff]
                 /\ UNCHANGED <<sm, log>>
       ELSE /\ stack' = Pop
            /\ cv' = [cv EXCEPT ![s] = CvOff,
                               ![Pop[Len(Pop)].s] = [@ EXCEPT !.idx = @ + 1]]
            /\ UNCHANGED <<simpc, sm, log>>
    /\ UNCHANGED <<config, rec, product, iter, errors, unitRun, exc, faults, nSim,
                   facRuns, facInLoop, lastMode, before, firstMet,
                   mainMet, prevConverged, probe, outcome>>

(***************************************************************************)
(* _summary: the _summary of every path element, then every facility in    *)
(* order, then the boilers once more.                                      *)
(***************************************************************************)
\* try_method_with_object_stamp(i, i._summary): a plain function has no _summary.
SummaryPath(s) ==
    /\ Running("summary", s)
    /\ sm[s].pc = "path"
    /\ IF \E i \in DOMAIN path[s] : Kind(path[s][i]) = "Function"
       THEN /\ exc' = "AttributeError"
            /\ sm' = sm
       ELSE /\ exc' = exc
            /\ sm' = [sm EXCEPT ![s] = [pc |-> IF facilities[s] = <<>> THEN "boil"
                                                ELSE "fac", idx |-> 1]]
    /\ UNCHANGED <<config, rec, product, iter, errors, unitRun, simpc, stack, cv,
                   faults, nSim, facRuns, facInLoop, log, lastMode, before, firstMet,
                   mainMet, prevConverged, probe, outcome>>

\* simulate_unit_in_path(i) of a facility
SimulateFacility(u) ==
    /\ rec' = rec_after(u)
    /\ facRuns' = [facRuns EXCEPT ![u] = @ + 1]
    /\ facInLoop' = (facInLoop \/ simpc = "converge")

\* for i in self._facilities: if isa(i, Unit): simulate_unit(i)
SummaryFacility(s) ==
    /\ Running("summary", s)
    /\ sm[s].pc = "fac"
    /\ SimulateFacility(facilities[s][sm[s].idx])
    /\ sm' = [sm EXCEPT ![s] = IF sm[s].idx = Len(facilities[s])
                               THEN [pc |-> "boil", idx |-> 1]
                               ELSE [pc |-> "fac", idx |-> sm[s].idx + 1]]
    /\ UNCHANGED <<config, product, iter, errors, unitRun, simpc, stack, cv, exc,
                   faults, nSim, log, lastMode, before, firstMet,
                   mainMet, prevConverged, probe, outcome>>

SummaryBoilersOmitted(s) ==
    /\ Running("summary", s)
    /\ sm[s].pc = "boil"
    /\ sm[s].idx <= Len(facilities[s])
    /\ sm' = [sm EXCEPT ![s].idx = @ + 1]
    /\ UNCHANGED <<config, rec, product, iter, errors, unitRun, simpc, stack, cv, exc,
                   faults, nSim, facRuns, facInLoop, log, lastMode, before, firstMet,
                   mainMet, prevConverged, probe, outcome>>

\* for i in self._facilities: if isa(i, (BoilerTurbogenerator, Boiler)): simulate_unit(i)
SummaryBoilers(s) ==
    /\ Running("summary", s)
    /\ sm[s].pc = "boil"
    /\ sm[s].idx <= Len(facilities[s])
    /\ IF facilities[s][sm[s].idx] \in Boilers
       THEN SimulateFacility(facilities[s][sm[s].idx])
       ELSE UNCHANGED <<rec, facRuns, facInLoop>>
    /\ sm' = [sm EXCEPT ![s].idx = @ + 1]
    /\ UNCHANGED <<config, product, iter, errors, unitRun, simpc, stack, cv, exc,
                   faults, nSim, log, lastMode, before, firstMet,
                   mainMet, prevConverged, probe, outcome>>

after_summary_without_loop == "none"

\* if self._facility_loop: self._facility_loop._converge()
after_summary == facility_loop

\* _summary returns: to simulate(), which converges the facility loop if there
\* is one, or to FacilityLoop._run.
SummaryReturn(s) ==
    /\ Running("summary", s)
    /\ sm[s].pc = "boil"
    /\ sm[s].idx > Len(facilities[s])
    /\ sm' = [sm EXCEPT ![s] = SmOff]
    /\ IF Len(stack) = 1
       THEN IF after_summary # "none"
            THEN /\ simpc' = "facility_loop"
                 /\ stack' = <<Frame("converge", after_summary)>>
                 /\ cv' = [cv EXCEPT ![after_summary] = [CvOff EXCEPT !.pc = "enter"]]
                 /\ log' = Append(log, "facility_loop")
            ELSE /\ simpc' = "done"
                 /\ stack' = <<>>
                 /\ UNCHANGED <<cv, log>>
       ELSE /\ stack' = Pop
            /\ cv' = [cv EXCEPT ![s] = [@ EXCEPT !.pc = "run_done"]]
            /\ UNCHANGED <<simpc, log>>
    /\ UNCHANGED <<config, rec, product, iter, errors, unitRun, exc, faults, nSim,
                   facRuns, facInLoop, lastMode, before, firstMet,
                   mainMet, prevConverged, probe, outcome>>

(***************************************************************************)
(* Exceptions.  _iter_run, _run and _summary catch nothing.  The           *)
(* stabilized f deletes the substituted _run in its finally; _solve        *)
(* catches an IndexError of the solver, calls the solver once more and,    *)
(* if that raises anything, raises the first error.                        *)
(***************************************************************************)
\* The frame at the top is left by the exception e.
Leave(s, e) ==
    /\ exc' = e
    /\ stack' = Pop
    /\ simpc' = IF Len(stack) = 1 THEN "raised" ELSE simpc

\* finally: for unit in special_units: del unit._run
FinallyWhileRaising(s) ==
    /\ Unwinding("converge", s)
    /\ cv[s].lvl = "inner"
    /\ LET d == del_runs(unitRun, special_units(s))
       IN  /\ unitRun' = d.ur
           /\ exc' = IF d.raised THEN "AttributeError" ELSE exc
    /\ cv' = [cv EXCEPT ![s] = [@ EXCEPT !.lvl = "outer"]]
    /\ UNCHANGED <<config, rec, product, iter, errors, simpc, stack, sm, faults, nSim,
                   facRuns, facInLoop, log, lastMode, before, firstMet,
                   mainMet, prevConverged, probe, outcome>>

solve_except_no_retry(s) == "propagate"

solve_except_retry_any(s) ==
    IF cv[s].attempt = 1 THEN "retry"
    ELSE IF cv[s].attempt = 2 THEN "first_error" ELSE "propagate"

\* What _solve does with an exception of solver(f, ...).
solve_except(s) ==
    IF cv[s].attempt = 1 /\ exc = "IndexError" THEN "retry"
    ELSE IF cv[s].attempt = 2 THEN "first_error"
    ELSE "propagate"

\* except IndexError as error: try: solver(f, self._get_recycle_data())
SolveRetry(s) ==
    /\ Unwinding("converge", s)
    /\ cv[s].lvl \in {"outer", "final"}
    /\ solve_except(s) = "retry"
    /\ exc' = "none"
    /\ cv' = [cv EXCEPT ![s] = [@ EXCEPT !.pc = "solver", !.attempt = 2]]
    /\ UNCHANGED <<config, rec, product, iter, errors, unitRun, simpc, stack, sm,
                   faults, nSim, facRuns, facInLoop, log, lastMode, before, firstMet,
                   mainMet, prevConverged, probe, outcome>>

\* An exception leaves _solve and _converge: the first IndexError if it is the
\* retry that failed, else the exception itself.
SolveRaise(s) ==
    /\ Unwinding("converge", s)
    /\ \/ cv[s].lvl = "plain"
       \/ cv[s].lvl \in {"outer", "final"} /\ solve_except(s) # "retry"
    /\ Leave(s, IF cv[s].lvl # "plain" /\ solve_except(s) = "first_error"
                THEN "IndexError" ELSE exc)
    /\ cv' = [cv EXCEPT ![s] = CvOff]
    /\ UNCHANGED <<config, rec, product, iter, errors, unitRun, sm, faults, nSim,
                   facRuns, facInLoop, log, lastMode, before, firstMet,
                   mainMet, prevConverged, probe, outcome>>

\* An exception leaves _summary.
SummaryRaise(s) ==
    /\ Unwinding("summary", s)
    /\ Leave(s, exc)
    /\ sm' = [sm EXCEPT ![s] = SmOff]
    /\ UNCHANGED <<config, rec, product, iter, errors, unitRun, cv, faults, nSim,
                   facRuns, facInLoop, log, lastMode, before, firstMet,
                   mainMet, prevConverged, probe, outcome>>

(***************************************************************************)
(* The specification of the System.                                        *)
(***************************************************************************)
Next ==
    \/ \E s \in Sys, v \in BOOLEAN : SetStabilized(s, v)
    \/ Simulate
    \/ \E s \in Sys : ConvergeEnter(s)
    \/ \E s \in Sys : SolverStart(s)
    \/ \E s \in Sys : CallF(s)
    \/ \E s \in Sys : IterBegin(s)
    \/ \E s \in Sys : RunUnit(s)
    \/ \E s \in Sys : RunUnitFails(s)
    \/ \E s \in Sys : ConvergeSystemInPath(s)
    \/ \E s \in Sys : CallFunction(s)
    \/ \E s \in Sys : RunEnd(s)
    \/ \E s \in Sys : RunReturn(s)
    \/ \E s \in Sys : IterEnd(s)
    \/ \E s \in Sys : InnerContinue(s)
    \/ \E s \in Sys : InnerReturn(s)
    \/ \E s \in Sys : OuterContinue(s)
    \/ \E s \in Sys : SolverReturn(s)
    \/ \E s \in Sys : ConvergeReturn(s)
    \/ \E s \in Sys : SummaryPath(s)
    \/ \E s \in Sys : SummaryFacility(s)
    \/ \E s \in Sys : SummaryBoilers(s)
    \/ \E s \in Sys : SummaryReturn(s)
    \/ \E s \in Sys : FinallyWhileRaising(s)
    \/ \E s \in Sys : SolveRetry(s)
    \/ \E s \in Sys : SolveRaise(s)
    \/ \E s \in Sys : SummaryRaise(s)

Spec == Init /\ [][Next]_vars

(***************************************************************************)
(* One call of _iter_run on its own: the vector it is given, what the path *)
(* answers, the temperatures before and after, the tolerances, the         *)
(* iteration counter and the budget are drawn from the sets below, and the *)
(* call leaves its errors, its answer or its exception in outcome.         *)
(***************************************************************************)
TolAbsOnly == [mol |-> 50000, rmol |-> RatZero, T |-> 10, rT |-> RatZero]

TolRelOnly == [mol |-> 0, rmol |-> Rat(1, 5), T |-> 0, rT |-> Rat(1, 1000)]

ProbeMol == {Vec(0, 0), Vec(20000, 5), Vec(20000, -100), Vec(400000, 20000),
             Vec(-30000, 0)}

ProbeMolNew == {Vec(0, 0), Vec(20000, 5), Vec(20001, 4), Vec(20000, 9000),
                Vec(460000, 30001), Vec(460000, 20001), Vec(40000, 30000)}

ProbeT == {<<30000, 30000>>, <<30000, 30001>>, <<30000, 30020>>, <<30000, 30040>>,
           <<20, 21>>, <<20, 40>>}

ProbeIter == {<<0, MaxIter>>, <<MaxIter - 1, MaxIter>>, <<MaxIter, MaxIter>>}

Probes ==
    {[mol |-> m, mol_new |-> mn, T |-> t[1], T_new |-> t[2], tol |-> tl,
      iter |-> it[1], maxiter |-> it[2], strict |-> st] :
        m \in ProbeMol, mn \in ProbeMolNew, t \in ProbeT,
        tl \in {TolLoose, TolTight, TolAbsOnly, TolRelOnly},
        it \in ProbeIter, st \in BOOLEAN}

IdleFlowsheet ==
    [kind |-> "recycle", hook |-> FALSE, spec |-> FALSE, strict |-> TRUE,
     faults |-> 0, nruns |-> 0, resp |-> RespMix, tol |-> TolLoose,
     mol0 |-> Vec(0, 0), steady |-> "same"]

InitIter ==
    /\ InitSystemWith({IdleFlowsheet})
    /\ probe \in Probes
    /\ outcome = NoOutcome

\* _iter_run(mol), with the path's answer (mol_new, T_new) given.
IterRun ==
    /\ ~outcome.done
    /\ LET chk == check_recycle_feasibility(probe.mol)
           r   == iter_test(chk.material, probe.mol_new, probe.T, probe.T_new,
                            probe.tol, probe.iter, probe.maxiter, probe.strict)
       IN  outcome' =
              IF chk.raised
              THEN [NoOutcome EXCEPT !.done = TRUE, !.raised = "InfeasibleRegion",
                                     !.mol = probe.mol, !.iter = probe.iter]
              ELSE [done |-> TRUE,
                    raised |-> IF r.raised THEN "RuntimeError" ELSE "none",
                    mol |-> chk.material,
                    mol_error |-> r.mol_error, rmol_error |-> r.rmol_error,
                    T_error |-> r.T_error, rT_error |-> r.rT_error,
                    iter |-> r.iter, not_converged |-> r.not_converged]
    /\ UNCHANGED <<sysvars, probe>>

NextIter == IterRun

SpecIter == InitIter /\ [][NextIter]_vars

\* The call of _iter_run has returned (it raised nothing).
Returned == outcome.done /\ outcome.raised = "none"

\* The test of the claim on the errors the call has stored.
FlowMet == \/ outcome.mol_error < probe.tol.mol
           \/ RatLess(outcome.rmol_error, probe.tol.rmol)

TemperatureMet == \/ outcome.T_error < probe.tol.T
                  \/ RatLess(outcome.rT_error, probe.tol.rT)

\* The budget is spent by this iterate, in lenient mode.
LenientlyAccepted ==
    ~probe.strict /\ outcome.iter >= probe.maxiter /\ ~(FlowMet /\ TemperatureMet)

\* As C3 has it: an iterate is reported converged exactly when (absolute OR
\* relative flow tolerance) AND (absolute OR relative temperature tolerance) are
\* satisfied, whatever the errors and tolerances.
C3_AsStated ==
    Returned => (~outcome.not_converged <=> (FlowMet /\ TemperatureMet))

\* C3: an iterate is reported converged exactly when (absolute OR relative flow
\* tolerance) AND (absolute OR relative temperature tolerance) are satisfied, or
\* when that test fails on the iterate that spends the budget (iteration counter
\* >= maxiter) in lenient mode.
C3_Converged ==
    Returned =>
        (~outcome.not_converged <=> ((FlowMet /\ TemperatureMet) \/ LenientlyAccepted))

\* An iterate within budget that passes on the relative flow tolerance alone and on
\* the absolute temperature tolerance alone is reported converged.
C3_Witness ==
    /\ Returned
    /\ ~outcome.not_converged
    /\ outcome.iter < probe.maxiter
    /\ outcome.mol_error >= probe.tol.mol
    /\ RatLess(outcome.rmol_error, probe.tol.rmol)
    /\ outcome.T_error < probe.tol.T
    /\ ~RatLess(outcome.rT_error, probe.tol.rT)

\* The per-component flow changes of the call, and those above the noise floor.
FlowChange(c) == Abs(outcome.mol[c] - probe.mol_new[c])

AboveFloor == {c \in Comps : FlowChange(c) > NoiseFloor}

FlowRatio(c) ==
    Rat(FlowChange(c), Max2(Abs(outcome.mol[c]), Abs(probe.mol_new[c])))

\* The flow errors as C4 has them: changes of at most 1e-16 are discarded, the
\* absolute error is the largest remaining change (zero if none remains), the
\* relative error is computed only if the absolute error exceeds 1e-12 and is
\* zero otherwise.
FlowPattern ==
    /\ AboveFloor = {} => outcome.mol_error = 0
    /\ AboveFloor # {} => outcome.mol_error = MaxOf({FlowChange(c) : c \in AboveFloor})
    /\ outcome.mol_error <= RelGuard => outcome.rmol_error.n = 0
    /\ outcome.mol_error > RelGuard =>
          /\ \E c \in AboveFloor : RatEq(outcome.rmol_error, FlowRatio(c))
          /\ \A c \in AboveFloor : ~RatLess(outcome.rmol_error, FlowRatio(c))

TemperatureChange == Abs(probe.T - probe.T_new)

\* The same pattern for the temperature.
TemperaturePattern ==
    /\ outcome.T_error = IF TemperatureChange > NoiseFloor THEN TemperatureChange ELSE 0
    /\ outcome.T_error <= RelGuard => outcome.rT_error.n = 0
    /\ outcome.T_error > RelGuard =>
          RatEq(outcome.rT_error, Rat(TemperatureChange, probe.T))

\* As C4 has it: the noise floor and the guard apply to the flow errors and, in
\* the same pattern, to the temperature errors.
C4_AsStated ==
    (outcome.done /\ outcome.raised # "InfeasibleRegion")
        => (FlowPattern /\ TemperaturePattern)

\* C4: per-component flow errors of at most 1e-16 are discarded, the absolute flow
\* error is zero if none remains, and the relative flow error is computed only when
\* the absolute flow error exceeds 1e-12 and is zero otherwise; the temperature
\* errors have neither: the absolute error is the change itself and the relative
\* error is always the change over the temperature before the iterate.
C4_NoiseFloorAndGuard ==
    (outcome.done /\ outcome.raised # "InfeasibleRegion") =>
        /\ FlowPattern
        /\ outcome.T_error = TemperatureChange
        /\ RatEq(outcome.rT_error, Rat(TemperatureChange, probe.T))

\* One component changes by no more than the floor and is discarded, the other
\* change lies between the floor and the guard, and the temperature changes by no
\* more than the floor.
C4_Witness ==
    /\ outcome.done /\ outcome.raised # "InfeasibleRegion"
    /\ AboveFloor # {} /\ AboveFloor # Comps
    /\ \E c \in Comps : FlowChange(c) = NoiseFloor
    /\ outcome.mol_error <= RelGuard
    /\ TemperatureChange = NoiseFloor

(***************************************************************************)
(* Properties of simulate().                                               *)
(***************************************************************************)
Stages == <<"converge", "summary", "facility_loop">>

IsPrefix(a, b) == Len(a) <= Len(b) /\ \A i \in DOMAIN a : a[i] = b[i]

\* The stages begin in order, each after the one before has returned, and a
\* simulate() that returns has gone through all of them.
StagesInOrder ==
    /\ IsPrefix(log, Stages)
    /\ simpc = "summary" => cv["main"].pc = "off"
    /\ simpc = "facility_loop" => log = Stages /\ facility_loop # "none"
    /\ simpc = "done" =>
          log = IF facility_loop # "none" THEN Stages ELSE SubSeq(Stages, 1, 2)

TagAsStated(e) ==
    CASE Kind(e) = "Unit" -> "run"
      [] Kind(e) = "System" -> "_converge"
      [] OTHER -> "call"

TagWithSpecification(e) ==
    IF Kind(e) = "System" /\ specification[e] THEN "specification" ELSE TagAsStated(e)

\* As C2 has it: _run visits every path element once, in order, and a nested
\* System is advanced by its own _converge.
C2_AsStated ==
    \A s \in Sys :
        cv[s].pc = "run_done" =>
            /\ Len(cv[s].trace) = Len(path[s])
            /\ \A i \in DOMAIN path[s] :
                  cv[s].trace[i] = <<path[s][i], TagAsStated(path[s][i])>>

\* C2: _run visits every path element exactly once, in path order; a unit is run,
\* a plain function is called, and a nested System is advanced by its
\* specification if it has one and by its own _converge otherwise.
C2_RunOrder ==
    \A s \in Sys :
        cv[s].pc = "run_done" =>
            /\ Len(cv[s].trace) = Len(path[s])
            /\ \A i \in DOMAIN path[s] :
                  cv[s].trace[i] = <<path[s][i], TagWithSpecification(path[s][i])>>

\* A run of main over a unit, a nested System with a specification, a function
\* and a unit is complete.
C2_Witness ==
    /\ cv["main"].pc = "run_done"
    /\ Len(path["main"]) = 4
    /\ cv["main"].trace[2] = <<"sub", "specification">>
    /\ cv["main"].trace[3] = <<"H", "call">>

\* The test on the errors the last iterate of s has stored.
MetNow(s) ==
    /\ \/ errors[s].mol_error < tol[s].mol
       \/ RatLess(errors[s].rmol_error, tol[s].rmol)
    /\ \/ errors[s].T_error < tol[s].T
       \/ RatLess(errors[s].rT_error, tol[s].rT)

\* _iter_run of s has just returned to its solver, or has just raised.
IterReturned(s) ==
    stack # <<>> /\ Top = Frame("converge", s) /\ exc = "none" /\ cv[s].pc = "ret"

IterRaised(s) ==
    stack # <<>> /\ Top = Frame("converge", s) /\ exc = "RuntimeError"
                 /\ cv[s].pc = "iter_end"

\* C5: when an iterate is not converged and the iteration counter has reached
\* maxiter, strict mode raises a failure; lenient mode raises none, tells the
\* solver to stop and leaves the last iterate in the recycle.  An iterate that is
\* not converged with budget left makes the solver go on.
C5_Budget ==
    \A s \in Sys :
        /\ (IterReturned(s) /\ ~MetNow(s) /\ iter[s] >= maxiter[s]) =>
              /\ ~strict_convergence
              /\ ~cv[s].cond
              /\ cv[s].g = rec[s].mol
        /\ (IterReturned(s) /\ ~MetNow(s) /\ iter[s] < maxiter[s]) => cv[s].cond
        /\ IterRaised(s) =>
              strict_convergence /\ ~MetNow(s) /\ iter[s] >= maxiter[s]
        /\ cv[s].pc = "return" /\ cv[s].lvl # "plain" => rec[s].mol = cv[s].g

\* In lenient mode an iterate that fails the test spends the budget and is accepted.
C5_Witness ==
    \E s \in Sys :
        /\ IterReturned(s) /\ ~MetNow(s) /\ iter[s] = maxiter[s]
        /\ ~strict_convergence /\ ~cv[s].cond
        /\ errors[s].mol_error >= tol[s].mol

\* _iter_run of s has just raised InfeasibleRegion, or has just passed the check.
InfeasibleRaised(s) ==
    stack # <<>> /\ Top = Frame("converge", s) /\ exc = "InfeasibleRegion"
                 /\ cv[s].pc = "iter"

CheckPassed(s) ==
    /\ Running("converge", s)
    /\ cv[s].pc = "run" /\ cv[s].lvl # "plain" /\ cv[s].idx = 1 /\ cv[s].trace = <<>>

\* What the check does with the vector it is given.
RaisesOrClips(s) ==
    /\ InfeasibleRaised(s) => \E c \in Comps : cv[s].raw[c] < -InfeasibleTol
    /\ CheckPassed(s) =>
          \A c \in Comps :
              /\ cv[s].raw[c] >= -InfeasibleTol
              /\ rec[s].mol[c] = IF cv[s].raw[c] < 0 THEN 0 ELSE cv[s].raw[c]
              /\ cv[s].x[c] = rec[s].mol[c]

\* As C6 has it: the vector is checked before the recycle stream is overwritten, so
\* that when InfeasibleRegion is raised the stream still holds what it held when
\* the solver called f.
C6_AsStated ==
    \A s \in Sys :
        /\ RaisesOrClips(s)
        /\ InfeasibleRaised(s) => rec[s].mol = cv[s].r0

\* The stabilized f of s has written its argument to the recycle, and the inner
\* solver has handed the copy of it to _iter_run.
WrittenFirst(s) ==
    /\ stabilized[s] /\ special_units(s) # <<>>
    /\ cv[s].raw = cv[s].xo
    /\ rec[s].mol = cv[s].xo

\* An InfeasibleRegion in flight is never caught and the iterate retried: it goes
\* on, or _solve's retry after an IndexError raises that IndexError in its place,
\* or a finally that fails raises an AttributeError in its place.
InfeasiblePropagates ==
    exc = "InfeasibleRegion" =>
        \/ exc' = "InfeasibleRegion"
        \/ /\ exc' = "IndexError"
           /\ cv[Top.s].attempt = 2
        \/ /\ exc' = "AttributeError"
           /\ cv[Top.s].lvl = "inner"

\* C6: at the start of each recycle iterate, before any path element runs, a
\* vector with a negative flow beyond the tolerance raises InfeasibleRegion, which
\* is never caught to retry the iterate; otherwise nothing is raised and every
\* negative entry is set to zero.  The check precedes the overwriting of the
\* recycle stream by _iter_run, but the f of stabilized mode has written the
\* vector to the stream before.
C6_Feasibility ==
    /\ [](\A s \in Sys :
            /\ RaisesOrClips(s)
            /\ InfeasibleRaised(s) => (rec[s].mol = cv[s].r0 \/ WrittenFirst(s)))
    /\ [][InfeasiblePropagates]_vars

\* A guess of the solver with a negative flow beyond the tolerance has raised
\* after an iterate whose start had a small negative entry clipped.
C6_Witness ==
    \E s \in Sys :
        /\ InfeasibleRaised(s)
        /\ ~stabilized[s]
        /\ cv[s].raw # cv[s].r0
        /\ iter[s] > 0
        /\ \E c \in Comps : before[c] < 0 /\ before[c] >= -InfeasibleTol

\* The recycle loop of an unstabilized s is under way.
Looping(s) == ~stabilized[s] /\ stack # <<>> /\ cv[s].lvl = "outer"

\* The loop of s has ended with an exception of _iter_run itself (its feasibility
\* check or its convergence test), not of a path element.
LoopRaised(s) ==
    /\ stack # <<>> /\ Top = Frame("converge", s) /\ exc # "none"
    /\ cv[s].pc \in {"iter", "iter_end"}

ConvergenceBegins(s) == stack # <<>> /\ cv[s].pc = "solver" /\ cv[s].attempt = 1

\* C25, as stated, at the start of a convergence: the counter is 0 and the error
\* fields hold nothing of an earlier simulation.
C25_AsStated ==
    \A s \in Sys : ConvergenceBegins(s) => iter[s] = 0 /\ errors[s] = NoErrors

\* C25, amended: when a convergence of s begins, the counters of s and of its
\* subsystems are 0; a counter changes only by that reset and by one in each
\* iterate that returns, so that after a convergence it is the number of iterates
\* made in it; the error fields change only in an iterate (and are not reset).
C25_ResetAndCount ==
    /\ [](\A s \in Sys : ConvergenceBegins(s) => \A t \in below(s) : iter[t] = 0)
    /\ [][\A s \in Sys :
            /\ iter'[s] # iter[s] =>
                  \/ iter'[s] = iter[s] + 1 /\ Running("converge", s)
                                            /\ cv[s].pc = "iter_end"
                  \/ iter'[s] = 0 /\ \E t \in Sys : s \in below(t) /\ cv[t].pc = "enter"
            /\ errors'[s] # errors[s] =>
                  Running("converge", s) /\ cv[s].pc = "iter_end"]_vars

\* The second simulate() begins a convergence of main: the counter is 0 again and
\* the errors are those of the first simulation.
C25_Witness ==
    /\ nSim = 2 /\ ConvergenceBegins("main")
    /\ iter["main"] = 0 /\ errors["main"] # NoErrors

\* An exception of the solver of s has reached the try of _solve.
SolveCatches(s) == Unwinding("converge", s) /\ cv[s].lvl \in {"outer", "final"}

\* What _solve does with the exception: an IndexError of the first call of the
\* solver starts the solver once more from the recycle as it is, the counter
\* kept; anything the second call raises leaves as IndexError; anything else
\* the first call raises leaves as it is.
SolveHandles(s) ==
    SolveCatches(s) =>
        IF cv[s].attempt = 1 /\ exc = "IndexError"
        THEN /\ exc' = "none" /\ stack' = stack
             /\ cv'[s].pc = "solver" /\ cv'[s].attempt = 2
             /\ iter' = iter /\ rec' = rec
        ELSE /\ stack' = Pop /\ cv'[s].attempt = 0
             /\ exc' = IF cv[s].attempt = 2 THEN "IndexError" ELSE exc

\* C29: in _solve an IndexError of the solver causes exactly one retry of the
\* solver from the current recycle data, the iteration counter not reset; if
\* the retry raises anything the IndexError is what is raised; any other
\* exception of the first call is raised at once, with no retry.
C29_RetryOnIndexError ==
    /\ [](\A s \in Sys : cv[s].attempt \in 0..2)
    /\ [][\A s \in Sys : SolveHandles(s)]_vars

\* The retry, begun after an iterate had been counted, has failed with an
\* exception that is not an IndexError.
C29_Witness ==
    \E s \in Sys :
        /\ SolveCatches(s) /\ cv[s].attempt = 2
        /\ exc \notin {"none", "IndexError"}
        /\ iter[s] > 1

\* No _summary is under way.
NoSummary == \A s \in Sys : sm[s].pc = "off"

C8_AsStated ==
    \A u \in SteadyUnits :
        unitRun[u] = "steady" =>
            \E s \in Sys : cv[s].pc # "off" /\ cv[s].lvl = "inner"

\* The second simulate() of main has returned, main's last iterate having met the
\* test when it was called.
RerunDone ==
    /\ simpc = "done" /\ nSim = 2
    /\ recycle["main"] /\ prevConverged

Drift(c) == Abs(rec["main"].mol[c] - before[c])

MassConserving ==
    /\ facility_loop = "none" /\ recycle["main"]
    /\ resp["main"] \in {RespMix, RespDecay}

Imbalance(c) == Abs(resp["main"].feed[c] - product[c])

\* simulate() has returned and main's last iterate met the test.
ConvergedDone == simpc = "done" /\ MassConserving /\ mainMet = "yes"

\* As C10 has it: when a recycle System converges, each component's total inlet
\* flow equals its total outlet flow within molar_tolerance.
C10_AsStated ==
    ConvergedDone => \A c \in Comps : Imbalance(c) < tol["main"].mol

\* C10: when a recycle System converges, each component's total inlet flow differs
\* from its total outlet flow by the last iterate's change of the recycle, which is
\* at most the stored flow error (or the noise floor): below molar_tolerance when
\* the absolute criterion accepted the iterate, and otherwise only below
\* relative_molar_tolerance of the recycle flow.
C10_MassBalance ==
    ConvergedDone =>
        /\ \A c \in Comps : Imbalance(c) <= Max2(NoiseFloor, errors["main"].mol_error)
        /\ \/ errors["main"].mol_error < tol["main"].mol
           \/ RatLess(errors["main"].rmol_error, tol["main"].rmol)
        /\ errors["main"].mol_error < tol["main"].mol =>
              \A c \in Comps : Imbalance(c) < tol["main"].mol

\* A converged loop with a nonzero imbalance below molar_tolerance.
C10_Witness ==
    /\ ConvergedDone
    /\ errors["main"].mol_error < tol["main"].mol
    /\ \E c \in Comps : Imbalance(c) > RelGuard

(***************************************************************************)
(* Two runs of _solve on the same problem, one under each of two sets of   *)
(* tolerances.  A run is followed as a function of its state, one          *)
(* _iter_run per step, with a solver that always takes the same kind of    *)
(* guess: the new iterate ("fixedpoint") or the extrapolation ("wegstein").*)
(* probe holds the problem and outcome the two runs.                       *)
(***************************************************************************)
\* A stiff path: its answer is five times as far from the steady state 160000
\* as the guess it was given.
RespStiff == [out |-> Vec(160000, 0), feed |-> Vec(-160000, 0), num |-> 5, den |-> 1]

\* The steady run of a unit of that path: a quarter as far.
RespRelax == [out |-> Vec(160000, 0), feed |-> Vec(-160000, 0), num |-> 1, den |-> 4]

\* The solver's next guess after f(x) answered g.
next_guess(alg, x, g) ==
    IF alg = "wegstein" /\ Extrapolated(x, g) \in Guesses(x, g)
    THEN Extrapolated(x, g) ELSE g

\* _solve begins: the solver starts from the recycle; the stabilized f hands it to
\* the inner solver.
solve_start(p) ==
    [lvl |-> IF p.stabilized THEN "inner" ELSE "outer",
     x |-> p.mol0, xo |-> p.mol0, T |-> TStart, iter |-> 0, status |-> "running"]

\* One _iter_run of a run r and what the solver at its level does with the answer.
solve_step(r, p, tl) ==
    LET chk == check_recycle_feasibility(r.x)
        mol == chk.material
        held == r.lvl = "inner" /\ p.steady = "hold"
        relaxed == r.lvl = "inner" /\ p.steady = "relax"
        mol_new == IF held THEN mol
                   ELSE IF relaxed THEN Answer(RespRelax, mol)
                   ELSE Answer(p.resp, mol)
        T_new == IF held THEN r.T ELSE TOut
        t == iter_test(mol, mol_new, r.T, T_new, tl, r.iter, p.maxiter, p.strict)
        done == [r EXCEPT !.x = mol_new, !.T = T_new, !.iter = t.iter,
                          !.status = IF t.met THEN "converged" ELSE "accepted"]
    IN  IF chk.raised THEN [r EXCEPT !.status = "InfeasibleRegion"]
        ELSE IF t.raised
        THEN [r EXCEPT !.T = T_new, !.iter = t.iter, !.status = "RuntimeError"]
        ELSE CASE r.lvl = "outer" ->
                    IF t.not_converged
                    THEN [r EXCEPT !.x = next_guess(p.alg, mol, mol_new),
                                   !.xo = next_guess(p.alg, mol, mol_new),
                                   !.T = T_new, !.iter = t.iter]
                    ELSE done
               [] r.lvl = "inner" ->
                    IF t.not_converged
                    THEN [r EXCEPT !.x = next_guess(p.alg, mol, mol_new),
                                   !.T = T_new, !.iter = t.iter]
                    ELSE [r EXCEPT !.lvl = "final", !.x = mol_new,
                                   !.T = T_new, !.iter = t.iter]
               [] OTHER ->
                    IF t.not_converged
                    THEN [r EXCEPT !.lvl = "inner",
                                   !.x = next_guess(p.alg, r.xo, mol_new),
                                   !.xo = next_guess(p.alg, r.xo, mol_new),
                                   !.T = T_new, !.iter = t.iter]
                    ELSE done

PairTolerances ==
    [mol : {50000, 20000}, rmol : {Rat(1, 100), Rat(1, 5)},
     T : {10, 3}, rT : {Rat(1, 1000), Rat(1, 100000)}]

\* No tolerance of a is looser than that of b.
AsTight(a, b) ==
    /\ a.mol <= b.mol /\ ~RatLess(b.rmol, a.rmol)
    /\ a.T <= b.T /\ ~RatLess(b.rT, a.rT)

\* Not stabilized; stabilized with a _steady_run that does what run does, that
\* leaves the recycle as it is, that relaxes it toward the steady state.
Modes == {<<FALSE, "same">>, <<TRUE, "same">>, <<TRUE, "hold">>, <<TRUE, "relax">>}

PairResponses == Responses \cup {RespStiff}

PairRecycles == InitialRecycles \cup {Vec(224000, 0)}

Problems ==
    {[resp |-> r, mol0 |-> m, alg |-> a, stabilized |-> md[1], steady |-> md[2],
      maxiter |-> MaxIter + 3, strict |-> st, tight |-> tt, loose |-> tl] :
        r \in PairResponses, m \in PairRecycles, a \in {"fixedpoint", "wegstein"},
        md \in Modes, st \in BOOLEAN,
        tt \in PairTolerances, tl \in PairTolerances}

InitPair ==
    /\ InitSystemWith({IdleFlowsheet})
    /\ probe \in {p \in Problems : AsTight(p.tight, p.loose) /\ p.tight # p.loose}
    /\ outcome = [tight |-> solve_start(probe), loose |-> solve_start(probe)]

\* The run under the tight tolerances makes its next iterate.
StepTight ==
    /\ outcome.tight.status = "running"
    /\ outcome' = [outcome EXCEPT !.tight = solve_step(@, probe, probe.tight)]
    /\ UNCHANGED <<sysvars, probe>>

\* Then the run under the loose tolerances makes its iterates.
StepLoose ==
    /\ outcome.tight.status # "running"
    /\ outcome.loose.status = "running"
    /\ outcome' = [outcome EXCEPT !.loose = solve_step(@, probe, probe.loose)]
    /\ UNCHANGED <<sysvars, probe>>

NextPair == StepTight \/ StepLoose

SpecPair == InitPair /\ [][NextPair]_vars

BothEnded == outcome.tight.status # "running" /\ outcome.loose.status # "running"

\* As C11 has it: of two runs of the same problem that differ only in the
\* tolerances, the one with the tighter tolerances never converges in fewer
\* iterations than the other.
C11_AsStated ==
    (BothEnded /\ outcome.tight.status = "converged") =>
        /\ outcome.loose.status = "converged"
        /\ outcome.loose.iter <= outcome.tight.iter

\* C11 (amended): when the solver drives _iter_run itself (the system is not in
\* stabilized mode), of two runs of the same problem that differ only in the
\* tolerances, the one with the tighter tolerances never converges in fewer
\* iterations than the other: the other has converged too, and no later.
C11_Monotone ==
    (~probe.stabilized /\ BothEnded /\ outcome.tight.status = "converged") =>
        /\ outcome.loose.status = "converged"
        /\ outcome.loose.iter <= outcome.tight.iter

\* Both runs converged outside stabilized mode, the tighter one after more iterations.
C11_Witness ==
    /\ ~probe.stabilized /\ BothEnded
    /\ outcome.tight.status = "converged" /\ outcome.loose.status = "converged"
    /\ outcome.loose.iter < outcome.tight.iter

(***************************************************************************)
(* The configuration surface: set_tolerance and the setter of              *)
(* converge_method.  outcome.attr holds, per System, the attributes that   *)
(* _load_defaults sets and these two change; probe holds the last call and *)
(* the attributes before it.  Floats are rationals, names are sequences of *)
(* characters.                                                             *)
(***************************************************************************)
MaxCalls == 2

default_maxiter == 200

\* An optional argument: omitted (None) or a number.
None == [given |-> FALSE, v |-> RatZero]

Given(r) == [given |-> TRUE, v |-> r]

\* if mol: -- None and 0 are both false.
truthy(a) == a.given /\ a.v.n # 0

\* float(x)
float(r) == r

\* int(x): truncation toward zero (of a non-negative number).
int(r) == r.n \div r.d

\* str.lower, on the letters that occur.
lower(c) ==
    CASE c = "A" -> "a" [] c = "F" -> "f" [] c = "P" -> "p" [] c = "W" -> "w"
      [] OTHER -> c

NotDashOrSpace(c) == c \notin {"-", " "}

\* method.lower().replace('-', '').replace(' ', '')
normalized(method) ==
    SelectSeq([k \in DOMAIN method |-> lower(method[k])], NotDashOrSpace)

aitken == <<"a", "i", "t", "k", "e", "n">>

wegstein == <<"w", "e", "g", "s", "t", "e", "i", "n">>

fixedpoint == <<"f", "i", "x", "e", "d", "p", "o", "i", "n", "t">>

\* The three solvers: _fixedpoint, _wegstein, _aitken.
Solvers == {<<"_">> \o n : n \in {aitken, wegstein, fixedpoint}}

\* Attributes of a System whose name starts with an underscore: the three
\* solvers and, among the others, _run, _converge and _summary.
SystemAttributes ==
    Solvers \cup {<<"_", "r", "u", "n">>,
                  <<"_", "c", "o", "n", "v", "e", "r", "g", "e">>,
                  <<"_", "s", "u", "m", "m", "a", "r", "y">>}

\* getattr(self, '_' + method) raises AttributeError when there is no such attribute.
hasattr(name) == name \in SystemAttributes

\* The setter of converge_method: the new _converge_method, or ValueError.
set_converge_method(a, method) ==
    LET name == <<"_">> \o normalized(method)
    IN  IF hasattr(name)
        THEN [attr |-> [a EXCEPT !._converge_method = name], raised |-> "none"]
        ELSE [attr |-> a, raised |-> "ValueError"]

\* default_converge_method
default_converge_method == <<"A", "i", "t", "k", "e", "n">>

\* _load_defaults
load_defaults ==
    set_converge_method(
        [molar_tolerance |-> Rat(1, 1),
         relative_molar_tolerance |-> Rat(1, 100),
         temperature_tolerance |-> Rat(1, 10),
         relative_temperature_tolerance |-> Rat(1, 1000),
         maxiter |-> default_maxiter,
         _converge_method |-> <<>>],
        default_converge_method).attr

\* The assignments of set_tolerance to one System.
set_own_tolerance(a, c) ==
    LET a1 == IF truthy(c.mol) THEN [a EXCEPT !.molar_tolerance = float(c.mol.v)] ELSE a
        a2 == IF truthy(c.rmol)
              THEN [a1 EXCEPT !.relative_molar_tolerance = float(c.rmol.v)] ELSE a1
        a3 == IF truthy(c.T) THEN [a2 EXCEPT !.temperature_tolerance = float(c.T.v)] ELSE a2
        a4 == IF truthy(c.rT) THEN [a3 EXCEPT !.temperature_tolerance = float(c.rT.v)] ELSE a3
    IN  IF truthy(c.maxiter) THEN [a4 EXCEPT !.maxiter = int(c.maxiter.v)] ELSE a4

\* set_tolerance: the System itself and, if subsystems, every System below it.
set_tolerance(attr, s, c) ==
    [t \in Sys |-> IF t = s \/ (c.subsystems /\ t \in below(s))
                   THEN set_own_tolerance(attr[t], c) ELSE attr[t]]

Configurable == {"main", "sub"}

ToleranceCalls ==
    [op : {"set_tolerance"},
     mol : {None, Given(RatZero), Given(Rat(1, 2))},
     rmol : {None, Given(Rat(1, 20))},
     T : {None, Given(Rat(1, 4))},
     rT : {None, Given(Rat(1, 10000))},
     maxiter : {None, Given(Rat(5, 2)), Given(Rat(50, 1))},
     subsystems : BOOLEAN]

MethodNames ==
    {<<"A", "i", "t", "k", "e", "n">>, wegstein,
     <<"F", "i", "x", "e", "d", "-", "P", "o", "i", "n", "t">>,
     <<"f", "i", "x", "e", "d", " ", "p", "o", "i", "n", "t">>,
     <<"n", "e", "w", "t", "o", "n">>, <<"r", "u", "n">>, <<"R", "u", "n">>,
     <<"_", "a", "i", "t", "k", "e", "n">>}

InitSet ==
    /\ InitSystemWith({IdleFlowsheet})
    /\ probe = [op |-> "new"]
    /\ outcome = [attr |-> [s \in Sys |-> load_defaults],
                  before |-> [s \in Sys |-> load_defaults],
                  on |-> "main", raised |-> "none", ran |-> <<>>, calls |-> 0]

SetTolerance ==
    \E s \in Configurable, c \in ToleranceCalls :
        /\ outcome.calls < MaxCalls
        /\ probe' = c
        /\ outcome' = [attr |-> set_tolerance(outcome.attr, s, c),
                       before |-> outcome.attr, on |-> s, raised |-> "none",
                       ran |-> <<>>, calls |-> outcome.calls + 1]
        /\ UNCHANGED sysvars

SetConvergeMethod ==
    \E s \in Configurable, method \in MethodNames :
        /\ outcome.calls < MaxCalls
        /\ probe' = [op |-> "converge_method", method |-> method]
        /\ LET r == set_converge_method(outcome.attr[s], method)
           IN  outcome' = [attr |-> [outcome.attr EXCEPT ![s] = r.attr],
                           before |-> outcome.attr, on |-> s, raised |-> r.raised,
                           ran |-> <<>>, calls |-> outcome.calls + 1]
        /\ UNCHANGED sysvars

\* _converge of a System with a recycle and no N_runs: self._converge_method()
Converge ==
    \E s \in Configurable :
        /\ recycle[s] /\ N_runs[s] = 0
        /\ probe.op # "_converge"
        /\ probe' = [op |-> "_converge"]
        /\ outcome' = [outcome EXCEPT !.before = outcome.attr, !.on = s,
                                      !.raised = "none",
                                      !.ran = outcome.attr[s]._converge_method]
        /\ UNCHANGED sysvars

NextSet == SetTolerance \/ SetConvergeMethod \/ Converge

SpecSet == InitSet /\ [][NextSet]_vars

\* What the call did to attribute f of System t, against the argument a given for it.
SetOrKept(t, f, a) ==
    IF a.given /\ (t = outcome.on \/ (probe.subsystems /\ t \in below(outcome.on)))
    THEN RatEq(outcome.attr[t][f], a.v)
    ELSE outcome.attr[t][f] = outcome.before[t][f]

\* As C12 has it: after set_tolerance each of the four tolerances and maxiter holds
\* its argument when one was given and its old value when it was omitted, on the
\* System and, with subsystems=True, on every subsystem; no other System changes.
C12_AsStated ==
    probe.op = "set_tolerance" =>
        \A t \in Sys :
            /\ SetOrKept(t, "molar_tolerance", probe.mol)
            /\ SetOrKept(t, "relative_molar_tolerance", probe.rmol)
            /\ SetOrKept(t, "temperature_tolerance", probe.T)
            /\ SetOrKept(t, "relative_temperature_tolerance", probe.rT)
            /\ IF probe.maxiter.given
                  /\ (t = outcome.on \/ (probe.subsystems /\ t \in below(outcome.on)))
               THEN outcome.attr[t].maxiter = int(probe.maxiter.v)
               ELSE outcome.attr[t].maxiter = outcome.before[t].maxiter

\* As C13 has it: a new System uses Aitken; the setter takes the three solver
\* names and nothing else, a refused name raising ValueError and leaving the
\* method as it was; so _converge always runs one of the three solvers.
C13_AsStated ==
    /\ probe.op = "new" => \A s \in Sys : outcome.attr[s]._converge_method = <<"_">> \o aitken
    /\ probe.op = "converge_method" =>
          IF normalized(probe.method) \in {aitken, wegstein, fixedpoint}
          THEN /\ outcome.raised = "none"
               /\ outcome.attr[outcome.on]._converge_method
                     = <<"_">> \o normalized(probe.method)
          ELSE /\ outcome.raised = "ValueError"
               /\ outcome.attr = outcome.before
    /\ probe.op = "_converge" => outcome.ran \in Solvers

(***************************************************************************)
(* The stage cascade of src/biosteam/units/phase_equilibrium.py.           *)
(*                                                                         *)
(* Floats.  A float is an exact fraction [n, d] in lowest terms with       *)
(* d > 0; d = 0 holds inf (n = 1), -inf (n = -1) and nan (n = 0), with the *)
(* arithmetic of IEEE 754 on them (the sign of a zero is not kept).        *)
(* Rounding is left out.  The arrays are two-dimensional in the source,    *)
(* stages by components, and every operation on them is elementwise: the   *)
(* model follows one component, an array being a sequence over the stages. *)
(***************************************************************************)
MaxStages == 3

RECURSIVE GCD(_, _)
GCD(x, y) == IF y = 0 THEN x ELSE GCD(y, x % y)

Sign(x) == IF x > 0 THEN 1 ELSE IF x < 0 THEN -1 ELSE 0

Fl(n, d) ==
    IF d = 0 THEN [n |-> Sign(n), d |-> 0]
    ELSE LET g == GCD(Abs(n), Abs(d))
         IN  [n |-> (Sign(d) * n) \div g, d |-> Abs(d) \div g]

inf == Fl(1, 0)

nan == Fl(0, 0)

isnan(x) == x.d = 0 /\ x.n = 0

fneg(x) == [n |-> -x.n, d |-> x.d]

fadd(x, y) ==
    IF x.d # 0 /\ y.d # 0 THEN Fl(x.n * y.d + y.n * x.d, x.d * y.d)
    ELSE IF isnan(x) \/ isnan(y) THEN nan
    ELSE IF x.d = 0 /\ y.d = 0 THEN (IF x.n = y.n THEN x ELSE nan)
    ELSE IF x.d = 0 THEN x ELSE y

fsub(x, y) == fadd(x, fneg(y))

fmul(x, y) == Fl(x.n * y.n, x.d * y.d)

fdiv(x, y) ==
    IF x.d = 0 /\ y.d # 0 THEN Fl(IF y.n < 0 THEN -x.n ELSE x.n, 0)
    ELSE Fl(x.n * y.d, x.d * y.n)

\* x < y; False when either is nan.
fless(x, y) ==
    /\ ~isnan(x) /\ ~isnan(y)
    /\ IF x.d = 0 \/ y.d = 0
       THEN (IF x.d = 0 THEN x.n ELSE 0) < (IF y.d = 0 THEN y.n ELSE 0)
            \/ (x.d = 0 /\ x.n = -1 /\ y.d # 0) \/ (y.d = 0 /\ y.n = 1 /\ x.d # 0)
       ELSE x.n * y.d < y.n * x.d

clip_none(x) == x

\* bi[bi < 0] = 0
clip(x) == IF fless(x, Fl(0, 1)) THEN Fl(0, 1) ELSE x

multiplier_inverted(ai, bi) == fdiv(bi, ai)

\* m = a[i] / b[i]
multiplier(ai, bi) == fdiv(ai, bi)

\* The m of solve_TDMA_2D_careful: 0 where b is inf (ab_fallback where a is -inf
\* as well), inf where b is 0, a / b elsewhere.
multiplier_careful(ai, bi, special) ==
    IF bi = inf THEN (IF ai = fneg(inf) THEN special ELSE Fl(0, 1))
    ELSE IF bi = Fl(0, 1) THEN inf
    ELSE fdiv(ai, bi)

RECURSIVE eliminate(_, _, _, _, _, _, _)
\* for i in range(n): the rows from i on (i counts from 1), with or without care.
eliminate(a, b, c, d, fallback, careful, i) ==
    IF i > Len(d) - 1 THEN [b |-> b, d |-> d]
    ELSE LET m == IF careful THEN multiplier_careful(a[i], b[i], fallback[i])
                  ELSE multiplier(a[i], b[i])
         IN  eliminate(a, [b EXCEPT ![i + 1] = fsub(b[i + 1], fmul(m, c[i]))], c,
                       [d EXCEPT ![i + 1] = fsub(d[i + 1], fmul(m, d[i]))],
                       fallback, careful, i + 1)

RECURSIVE substitute_back(_, _, _, _, _)
\* for i in range(n-1, -1, -1): b[i] = (d[i] - c[i] * b[i+1]) / b[i]
substitute_back(b, c, d, careful, i) ==
    IF i < 1 THEN b
    ELSE LET bi == fdiv(fsub(d[i], fmul(c[i], b[i + 1])), b[i])
         IN  substitute_back([b EXCEPT ![i] = IF careful THEN clip(bi) ELSE bi],
                             c, d, careful, i - 1)

solve_TDMA(a, b, c, d) ==
    LET e == eliminate(a, b, c, d, <<>>, FALSE, 1)
        n == Len(d)
    IN  substitute_back([e.b EXCEPT ![n] = fdiv(e.d[n], e.b[n])], c, e.d, FALSE, n - 1)

solve_TDMA_2D_careful(a, b, c, d, ab_fallback) ==
    LET e == eliminate(a, b, c, d, ab_fallback, TRUE, 1)
        n == Len(d)
    IN  substitute_back([e.b EXCEPT ![n] = clip(fdiv(e.d[n], e.b[n]))], c, e.d, TRUE, n - 1)

\* The diagonal as the elimination of solve_TDMA leaves it: its pivots.
pivots(a, b, c, d) == eliminate(a, b, c, d, <<>>, FALSE, 1).b

(***************************************************************************)
(* The two solvers on tridiagonal systems of up to MaxStages rows.         *)
(***************************************************************************)
SubDiagonals == {Fl(-1, 1), Fl(1, 1)}

Diagonals == {Fl(0, 1), Fl(1, 1), Fl(2, 1)}

SuperDiagonals == {Fl(-1, 1), Fl(1, 1)}

RightHandSides == {Fl(-1, 1), Fl(3, 1)}

Systems ==
    UNION {[a : [1..(n - 1) -> SubDiagonals], b : [1..n -> Diagonals],
            c : [1..(n - 1) -> SuperDiagonals], d : [1..n -> RightHandSides]] :
           n \in 1..MaxStages}

InitTDMA ==
    /\ InitSystemWith({IdleFlowsheet})
    /\ probe \in Systems
    /\ outcome = [solved |-> FALSE]

SolveSystem ==
    /\ ~outcome.solved
    /\ outcome' = [solved |-> TRUE,
                   x |-> solve_TDMA(probe.a, probe.b, probe.c, probe.d),
                   careful |-> solve_TDMA_2D_careful(probe.a, probe.b, probe.c, probe.d,
                                                     [k \in DOMAIN probe.d |-> Fl(-1, 1)]),
                   pivots |-> pivots(probe.a, probe.b, probe.c, probe.d)]
    /\ UNCHANGED <<sysvars, probe>>

NextTDMA == SolveSystem

SpecTDMA == InitTDMA /\ [][NextTDMA]_vars

Rows == DOMAIN probe.d

NoZeroPivot == \A k \in Rows : outcome.pivots[k].d # 0 /\ outcome.pivots[k].n # 0

\* Row k of the system at the vector x.
RowHolds(x, k) ==
    fadd(fadd(IF k > 1 THEN fmul(probe.a[k - 1], x[k - 1]) ELSE Fl(0, 1),
              fmul(probe.b[k], x[k])),
         IF k < Len(probe.d) THEN fmul(probe.c[k], x[k + 1]) ELSE Fl(0, 1)) = probe.d[k]

\* C14: when the elimination meets no zero pivot, the vector solve_TDMA returns
\* satisfies every row equation a[i-1]*x[i-1] + b[i]*x[i] + c[i]*x[i+1] = d[i].
C14_Solves ==
    (outcome.solved /\ NoZeroPivot) => \A k \in Rows : RowHolds(outcome.x, k)

\* A system of three rows was solved without a zero pivot, all unknowns nonzero.
C14_Witness ==
    /\ outcome.solved /\ NoZeroPivot /\ Len(probe.d) = MaxStages
    /\ \A k \in Rows : outcome.x[k].n # 0 /\ (k > 1 => probe.a[k - 1].n # 0)

One == Fl(1, 1)

bottoms_stripping_factors_inverted(phase_ratios, partition_coefficients) ==
    [Sb |-> [k \in DOMAIN phase_ratios |-> fmul(phase_ratios[k], partition_coefficients[k])],
     safe |-> TRUE]

\* bottoms_stripping_factors_safe: the factors of the component and the flag.
bottoms_stripping_factors_safe(phase_ratios, partition_coefficients) ==
    LET zero_mask == [k \in DOMAIN phase_ratios |-> ~fless(Fl(0, 1), phase_ratios[k])]
        inf_mask == [k \in DOMAIN phase_ratios |-> phase_ratios[k] = inf]
    IN  [Sb |-> [k \in DOMAIN phase_ratios |->
                    IF zero_mask[k] THEN inf
                    ELSE IF inf_mask[k] THEN Fl(0, 1)
                    ELSE fdiv(One, fmul(phase_ratios[k], partition_coefficients[k]))],
         safe |-> \A k \in DOMAIN phase_ratios : ~zero_mask[k] /\ ~inf_mask[k]]

top_flow_rates_without_one(Sb, feed_flows, asplit_1, bsplit_1, N_stages, safe) ==
    solve_TDMA([k \in 1..N_stages |-> fmul(bsplit_1[k], Sb[k])], Sb,
               [k \in 1..(N_stages - 1) |-> asplit_1[k + 1]], feed_flows)

top_flow_rates(Sb, feed_flows, asplit_1, bsplit_1, N_stages, safe) ==
    LET b == [k \in 1..N_stages |-> fadd(One, Sb[k])]
        c == [k \in 1..(N_stages - 1) |-> asplit_1[k + 1]]
        d == feed_flows
        a == [k \in 1..N_stages |-> fmul(bsplit_1[k], Sb[k])]
    IN  IF safe THEN solve_TDMA(a, b, c, d)
        ELSE solve_TDMA_2D_careful(a, b, c, d, bsplit_1)

RECURSIVE stage_rows(_, _, _, _, _, _, _)
\* The rows of bottom_flow_rates from stage i on, for two stages or more
\* (clipped: a negative row is set to 0 before the next one).
stage_rows(top_flows, feed_flows, asplit_left, bsplit_left, clipped, bottom_flows, i) ==
    IF i > Len(top_flows) THEN bottom_flows
    ELSE LET N == Len(top_flows)
             from_above == IF i = 1 THEN Fl(0, 1)
                           ELSE fmul(bsplit_left[i - 1], bottom_flows[i - 1])
             from_below == IF i = N THEN Fl(0, 1)
                           ELSE fmul(top_flows[i + 1], asplit_left[i + 1])
             row == fsub(fadd(fadd(feed_flows[i], from_above), from_below), top_flows[i])
         IN  stage_rows(top_flows, feed_flows, asplit_left, bsplit_left, clipped,
                        [bottom_flows EXCEPT ![i] = IF clipped THEN clip(row) ELSE row],
                        i + 1)

bottom_flow_rates(top_flows, feed_flows, asplit_left, bsplit_left) ==
    stage_rows(top_flows, feed_flows, asplit_left, bsplit_left, FALSE,
               [k \in DOMAIN top_flows |-> Fl(0, 1)], 1)

\* What a read outside an array can give under numba, which does not check
\* bounds: top_flows[1] * asplit_left[1] and bsplit_left[-2] * bottom_flows[-2]
\* of a one-stage cascade.
OutOfBounds == {Fl(0, 1), One, Fl(-4, 1)}

\* One block of mass_balance, on the row of stage i (one entry per component):
\* the negative entries are set to 0 and, when the stage is still to be
\* corrected, added to the top flows of the stage, the flag is cleared and the
\* block breaks before the row is stored.  m holds bottom_flows, top_flows and
\* correct_stages.
balance_row(m, row, i) ==
    LET index == [c \in DOMAIN row |-> fless(row[c], Fl(0, 1))]
        negative == \E c \in DOMAIN row : index[c]
        clipped == [c \in DOMAIN row |-> IF index[c] THEN Fl(0, 1) ELSE row[c]]
    IN  IF negative /\ m.correct_stages[i]
        THEN [m EXCEPT !.top_flows[i] = [c \in DOMAIN row |->
                                            IF index[c] THEN fadd(@[c], row[c]) ELSE @[c]],
                       !.correct_stages[i] = FALSE,
                       !.broke = TRUE]
        ELSE [m EXCEPT !.bottom_flows[i] = clipped]

RECURSIVE middle_rows(_, _, _, _, _)
\* for i in range(1, N_stages-1): a break leaves the loop, not the while.
middle_rows(m, feed_flows, asplit_left, bsplit_left, i) ==
    IF i > Len(feed_flows) - 1 THEN m
    ELSE LET row == [c \in DOMAIN feed_flows[i] |->
                        fsub(fadd(fadd(feed_flows[i][c],
                                       fmul(bsplit_left[i - 1], m.bottom_flows[i - 1][c])),
                                  fmul(m.top_flows[i + 1][c], asplit_left[i + 1])),
                             m.top_flows[i][c])]
             after == balance_row(m, row, i)
         IN  IF after.broke THEN [after EXCEPT !.broke = FALSE]
             ELSE middle_rows(after, feed_flows, asplit_left, bsplit_left, i + 1)

\* mass_balance, on flows held by stage and component: the bottom flows it can
\* return, with the top flows and the flags as it leaves them (top_flows is
\* changed in place).  The body of the while runs once: the last block ends with
\* infeasible False or with a break, and the break of the first and of the last
\* block leaves the while.  With one stage the first and the last row are the
\* same entry and both read outside the arrays.
mass_balance(top_flows, feed_flows, asplit_left, bsplit_left, correct_stages) ==
    LET N == Len(top_flows)
        chemicals == DOMAIN top_flows[1]
        m0 == [bottom_flows |-> [k \in DOMAIN top_flows |-> [c \in chemicals |-> Fl(0, 1)]],
               top_flows |-> top_flows, correct_stages |-> correct_stages,
               broke |-> FALSE]
        last(m, from_above) ==
            balance_row(m, [c \in chemicals |->
                               fsub(fadd(feed_flows[N][c], from_above[c]), m.top_flows[N][c])],
                        N)
        first(from_below) ==
            balance_row(m0, [c \in chemicals |->
                                fsub(fadd(feed_flows[1][c], from_below[c]), top_flows[1][c])],
                        1)
        outside == [chemicals -> OutOfBounds]
        rest(m1) ==
            IF m1.broke THEN {m1}
            ELSE IF N = 1 THEN {last(m1, junk) : junk \in outside}
            ELSE LET m2 == middle_rows(m1, feed_flows, asplit_left, bsplit_left, 2)
                 IN  {last(m2, [c \in chemicals |->
                                   fmul(bsplit_left[N - 1], m2.bottom_flows[N - 1][c])])}
    IN  UNION {rest(m1) :
               m1 \in IF N = 1 THEN {first(junk) : junk \in outside}
                      ELSE {first([c \in chemicals |->
                                      fmul(top_flows[2][c], asplit_left[2])])}}

PhaseRatios == {Fl(0, 1), One, Fl(2, 1), inf}

PartitionCoefficients == {One, Fl(2, 1)}

FeedFlows == {Fl(0, 1), Fl(10, 1)}

BottomSplits == {Fl(0, 1), Fl(1, 2)}

Cascades ==
    UNION {[B : [1..n -> PhaseRatios], K : [1..n -> PartitionCoefficients],
            feed_flows : [1..n -> FeedFlows], N_stages : {n},
            top_split : {Fl(0, 1)}, bottom_split : BottomSplits] :
           n \in 1..MaxStages}

\* self._asplit_1 = top_splits - 1 and the three like it (every stage has the
\* same side draw here).
asplit_1 == [k \in 1..probe.N_stages |-> fsub(probe.top_split, One)]

bsplit_1 == [k \in 1..probe.N_stages |-> fsub(probe.bottom_split, One)]

asplit_left == [k \in 1..probe.N_stages |-> fsub(One, probe.top_split)]

bsplit_left == [k \in 1..probe.N_stages |-> fsub(One, probe.bottom_split)]

InitCascade ==
    /\ InitSystemWith({IdleFlowsheet})
    /\ probe \in {p \in Cascades : \A j, k \in 1..p.N_stages : p.K[j] = p.K[k]}
    /\ outcome = [pc |-> "new"]

\* run_mass_balance
RunMassBalance ==
    /\ outcome.pc = "new"
    /\ LET f == bottoms_stripping_factors_safe(probe.B, probe.K)
       IN  outcome' = [pc |-> "top", Sb |-> f.Sb, safe |-> f.safe,
                       top_flows |-> top_flow_rates(f.Sb, probe.feed_flows, asplit_1,
                                                    bsplit_1, probe.N_stages, f.safe)]
    /\ UNCHANGED <<sysvars, probe>>

\* set_flow_rates(top_flows): negative top flows are set to 0, the bottom flows
\* come from mass_balance and are clipped as well.
SetFlowRates ==
    /\ outcome.pc = "top"
    /\ LET top == [k \in DOMAIN outcome.top_flows |-> clip(outcome.top_flows[k])]
           zeros == [k \in DOMAIN top |-> FALSE]
       IN  \E m \in mass_balance([k \in DOMAIN top |-> <<top[k]>>],
                                 [k \in DOMAIN top |-> <<probe.feed_flows[k]>>],
                                 asplit_left, bsplit_left, zeros) :
              outcome' = [outcome EXCEPT !.pc = "set"] @@
                         [s_top |-> top,
                          s_bot |-> [k \in DOMAIN top |-> clip(m.bottom_flows[k][1])]]
    /\ UNCHANGED <<sysvars, probe>>

\* bottom_flow_rates, on the top flows of a cascade of two stages or more.
BottomFlowRates ==
    /\ outcome.pc = "top" /\ probe.N_stages >= 2
    /\ outcome' = [outcome EXCEPT !.pc = "bottoms"] @@
                  [bottom_flows |-> bottom_flow_rates(outcome.top_flows, probe.feed_flows,
                                                      asplit_left, bsplit_left)]
    /\ UNCHANGED <<sysvars, probe>>

NextCascade == RunMassBalance \/ SetFlowRates \/ BottomFlowRates

SpecCascade == InitCascade /\ [][NextCascade]_vars

StageIndex == 1..probe.N_stages

NoSideDraws == probe.top_split = Fl(0, 1) /\ probe.bottom_split = Fl(0, 1)

Degenerate(k) == probe.B[k] \in {Fl(0, 1), inf}

\* As C16 has it: with a degenerate phase ratio somewhere the fallback arithmetic
\* gives top flows that are numbers and not negative; a stage with phase ratio
\* zero has top flow zero, a stage with an infinite phase ratio has bottoms
\* stripping factor zero.
C16_AsStated ==
    (outcome.pc # "new" /\ \E k \in StageIndex : Degenerate(k)) =>
        /\ ~outcome.safe
        /\ \A k \in StageIndex :
              /\ outcome.top_flows[k].d # 0
              /\ ~fless(outcome.top_flows[k], Fl(0, 1))
              /\ probe.B[k] = Fl(0, 1) => outcome.top_flows[k] = Fl(0, 1)
              /\ probe.B[k] = inf => outcome.Sb[k] = Fl(0, 1)

RECURSIVE SumOver(_, _)
\* The sum of f[k] over the stages k of S.
SumOver(f, S) ==
    IF S = {} THEN Fl(0, 1)
    ELSE LET k == CHOOSE j \in S : TRUE IN fadd(f[k], SumOver(f, S \ {k}))

AllOnes == \A k \in StageIndex : probe.B[k] = One /\ probe.K[k] = One

C18_AsStated ==
    (outcome.pc = "set" /\ probe.N_stages = 1 /\ ~Degenerate(1)) =>
        LET BK == fmul(probe.B[1], probe.K[1])
        IN  /\ outcome.s_top[1] = fdiv(fmul(probe.feed_flows[1], BK), fadd(One, BK))
            /\ outcome.s_bot[1] = fsub(probe.feed_flows[1], outcome.s_top[1])

\* The bottoms stripping factor 1/(B*K) of stage k.
StrippingFactor(k) == fdiv(One, fmul(probe.B[k], probe.K[k]))

\* C19: two stages, no side draws, no degenerate phase ratio: the top flows
\* satisfy (1 + Sb_i)*top_i - top_(i+1) - Sb_(i-1)*top_(i-1) = feed_i with
\* Sb_i = 1/(B_i*K_i), and the bottom flow of each stage is Sb_i*top_i.
C19_StageBalances ==
    (outcome.pc = "bottoms" /\ probe.N_stages = 2 /\ NoSideDraws
        /\ \A k \in StageIndex : ~Degenerate(k)) =>
        LET top == outcome.top_flows
        IN  /\ fsub(fmul(fadd(One, StrippingFactor(1)), top[1]), top[2])
                  = probe.feed_flows[1]
            /\ fsub(fmul(fadd(One, StrippingFactor(2)), top[2]),
                    fmul(StrippingFactor(1), top[1])) = probe.feed_flows[2]
            /\ \A k \in StageIndex :
                  outcome.bottom_flows[k] = fmul(StrippingFactor(k), top[k])

\* Two fed stages with different phase ratios, no side draws, both flows found.
C19_Witness ==
    /\ outcome.pc = "bottoms" /\ probe.N_stages = 2 /\ NoSideDraws
    /\ \A k \in StageIndex : ~Degenerate(k) /\ probe.feed_flows[k] # Fl(0, 1)
    /\ probe.B[1] # probe.B[2]
    /\ probe.K[1] = Fl(2, 1)

(***************************************************************************)
(* MultiStageEquilibrium._run under the root strategy.  probe holds the    *)
(* configuration; outcome the attributes attempt, iter, fallback_iter and  *)
(* converged, the local method, the place in _run (pc), and what the       *)
(* iterates of the attempt under way have been: their number (iterates),   *)
(* the number of sweeps, and whether the last one met the tolerances.      *)
(* Whether an iterate meets the tolerances is decided by the stages'       *)
(* thermodynamics, which the model leaves open.                            *)
(***************************************************************************)
MaxAttempts == 2

MaxFallback == 2

Configurations ==
    [max_attempts : 1..MaxAttempts, maxiter : 1..MaxIter,
     fallback_maxiter : 1..MaxFallback, method : {"fixed-point", "hybr"}]

\* root_options[method][1]: only fixed-point is conditional.
conditional(method) == method = "fixed-point"

InitAttempts ==
    /\ InitSystemWith({IdleFlowsheet})
    /\ probe \in Configurations
    /\ outcome = [pc |-> "hot_start", attempt |-> 0, iter |-> 0, fallback_iter |-> 0,
                  converged |-> FALSE, method |-> probe.method,
                  iterates |-> 0, sweeps |-> 0, met |-> FALSE, fell_back |-> FALSE]

\* if algorithm == 'root': self.converged = True, and the loop begins.
StartRoot ==
    /\ outcome.pc = "hot_start"
    /\ outcome' = [outcome EXCEPT !.pc = "for", !.converged = TRUE]
    /\ UNCHANGED <<sysvars, probe>>

\* for i in range(self.max_attempts): the head of one attempt.
BeginAttempt ==
    /\ outcome.pc = "for" /\ outcome.attempt < probe.max_attempts
    /\ outcome' = [outcome EXCEPT !.pc = IF conditional(probe.method)
                                         THEN "conditional" ELSE "root",
                                  !.iter = 0, !.fallback_iter = 0,
                                  !.method = probe.method,
                                  !.iterates = 0, !.sweeps = 0, !.met = FALSE,
                                  !.fell_back = FALSE]
    /\ UNCHANGED <<sysvars, probe>>

\* The else of the for loop: no attempt ended in a break.
AttemptsUsed ==
    /\ outcome.pc = "for" /\ outcome.attempt = probe.max_attempts
    /\ outcome' = [outcome EXCEPT !.pc = "done", !.converged = FALSE]
    /\ UNCHANGED <<sysvars, probe>>

\* solver(self._root_iter, ...): one _iter of the root finder.
RootIter ==
    /\ outcome.pc = "root" /\ outcome.iter <= MaxIter
    /\ outcome' = [outcome EXCEPT !.iter = @ + 1]
    /\ UNCHANGED <<sysvars, probe>>

\* The root finder returns: break.
RootReturns ==
    /\ outcome.pc = "root"
    /\ outcome' = [outcome EXCEPT !.pc = "done"]
    /\ UNCHANGED <<sysvars, probe>>

\* except RuntimeError: fall back to fixed-point.
RootRaises ==
    /\ outcome.pc = "root"
    /\ outcome' = [outcome EXCEPT !.pc = "conditional", !.method = "fixed-point"]
    /\ UNCHANGED <<sysvars, probe>>

\* _conditional_iter under flx.conditional_fixed_point: _iter counts, then
\* not_converged = self.iter < self.maxiter and (the tolerances are not met).
ConditionalIter ==
    /\ outcome.pc = "conditional"
    /\ \E met \in BOOLEAN :
          LET iter_new == outcome.iter + 1
              not_converged == iter_new < probe.maxiter /\ ~met
          IN  outcome' = [outcome EXCEPT !.iter = iter_new, !.iterates = @ + 1,
                                         !.met = met,
                                         !.pc = IF not_converged THEN "conditional"
                                                ELSE "if"]
    /\ UNCHANGED <<sysvars, probe>>

\* if method == 'fixed-point' and self.iter == self.maxiter: the sequential
\* fallback; else: break.
AfterIteration ==
    /\ outcome.pc = "if"
    /\ outcome' = IF outcome.method = "fixed-point" /\ outcome.iter = probe.maxiter
                  THEN [outcome EXCEPT !.pc = "sequential", !.fell_back = TRUE]
                  ELSE [outcome EXCEPT !.pc = "done"]
    /\ UNCHANGED <<sysvars, probe>>

\* _sequential_iter under flx.conditional_fixed_point.
SequentialIter ==
    /\ outcome.pc = "sequential"
    /\ \E met \in BOOLEAN :
          LET fallback_new == outcome.fallback_iter + 1
              not_converged == fallback_new < probe.fallback_maxiter /\ ~met
          IN  outcome' = [outcome EXCEPT !.fallback_iter = fallback_new,
                                         !.sweeps = @ + 1, !.met = met,
                                         !.pc = IF not_converged THEN "sequential"
                                                ELSE "fallback_if"]
    /\ UNCHANGED <<sysvars, probe>>

\* if self.fallback_iter < self.fallback_maxiter: break; otherwise the next attempt.
AfterFallback ==
    /\ outcome.pc = "fallback_if"
    /\ outcome' = IF outcome.fallback_iter < probe.fallback_maxiter
                  THEN [outcome EXCEPT !.pc = "done"]
                  ELSE [outcome EXCEPT !.pc = "for", !.attempt = @ + 1]
    /\ UNCHANGED <<sysvars, probe>>

NextAttempts ==
    \/ StartRoot \/ BeginAttempt \/ AttemptsUsed \/ RootIter \/ RootReturns
    \/ RootRaises \/ ConditionalIter \/ AfterIteration \/ SequentialIter
    \/ AfterFallback

SpecAttempts == InitAttempts /\ [][NextAttempts]_vars

\* As C20 has it: at most max_attempts attempts, at most maxiter fixed-point
\* iterates in each, the fallback only after fixed-point iterates that did not meet
\* the tolerances, at most fallback_maxiter sweeps in each fallback, and converged
\* False in the end only when every attempt was used and the tolerances were not met.
C20_AsStated ==
    /\ outcome.attempt <= probe.max_attempts
    /\ outcome.iterates <= probe.maxiter
    /\ outcome.sweeps <= probe.fallback_maxiter
    /\ (outcome.pc = "sequential" /\ outcome.sweeps = 0) => ~outcome.met
    /\ (outcome.pc = "done" /\ ~outcome.converged) =>
          outcome.attempt = probe.max_attempts /\ ~outcome.met

(***************************************************************************)
(* MultiStageEquilibrium._run as a whole: the try block around the hot     *)
(* start, the iteration strategy and correct_overall_mass_balance, and its *)
(* except clause.  outcome is that of the root strategy with, in addition, *)
(* the attribute use_cache, whether the call under way is the one made by  *)
(* the except clause (nested), the number of such calls (retries), the     *)
(* exception in flight (exc), the first exception raised (first) and the   *)
(* number of exceptions raised (failures).  probe.use_cache is the         *)
(* attribute when _run is called.                                          *)
(***************************************************************************)
RunFailures == {"RuntimeError", "InfeasibleRegion"}

except_always_retry(use_cache) == "retry"

\* except Exception as e: if self.use_cache: (retry) else: raise e
except_Exception(use_cache) == IF use_cache THEN "retry" ELSE "raise"

InitRun ==
    /\ InitSystemWith({IdleFlowsheet})
    /\ probe \in [max_attempts : 1..MaxAttempts, maxiter : 1..MaxIter,
                  fallback_maxiter : 1..MaxFallback, method : {"fixed-point", "hybr"},
                  use_cache : BOOLEAN]
    /\ outcome = [pc |-> "hot_start", attempt |-> 0, iter |-> 0, fallback_iter |-> 0,
                  converged |-> FALSE, method |-> probe.method,
                  iterates |-> 0, sweeps |-> 0, met |-> FALSE, fell_back |-> FALSE,
                  use_cache |-> probe.use_cache, nested |-> FALSE, retries |-> 0,
                  exc |-> "none", first |-> "none", failures |-> 0]

\* An exception out of hot_start, of an iterate, of a sweep or of
\* correct_overall_mass_balance; a RuntimeError of the root finder is caught
\* inside the attempt (RootRaises).
Fails ==
    /\ outcome.pc \in {"hot_start", "conditional", "root", "sequential", "done"}
    /\ \E e \in RunFailures :
          /\ outcome.pc = "root" => e # "RuntimeError"
          /\ outcome' = [outcome EXCEPT !.pc = "except", !.exc = e,
                                        !.first = IF @ = "none" THEN e ELSE @,
                                        !.failures = @ + 1]
    /\ UNCHANGED <<sysvars, probe>>

\* The except clause: with use_cache, self.use_cache = False and self._run() anew;
\* without, raise e (into the finally of the calling _run when nested).
Except ==
    /\ outcome.pc = "except"
    /\ outcome' = IF except_Exception(outcome.use_cache) = "retry"
                  THEN [outcome EXCEPT !.pc = "hot_start", !.use_cache = FALSE,
                                       !.nested = TRUE, !.retries = @ + 1,
                                       !.exc = "none", !.attempt = 0]
                  ELSE [outcome EXCEPT !.pc = IF outcome.nested THEN "finally"
                                              ELSE "raised"]
    /\ UNCHANGED <<sysvars, probe>>

\* correct_overall_mass_balance returns and so does _run.
Returns ==
    /\ outcome.pc = "done"
    /\ outcome' = [outcome EXCEPT !.pc = IF outcome.nested THEN "finally"
                                         ELSE "returned"]
    /\ UNCHANGED <<sysvars, probe>>

\* finally: self.use_cache = True, whether the nested call returned or raised.
Finally ==
    /\ outcome.pc = "finally"
    /\ outcome' = [outcome EXCEPT !.use_cache = TRUE, !.nested = FALSE,
                                  !.pc = IF outcome.exc = "none" THEN "returned"
                                         ELSE "raised"]
    /\ UNCHANGED <<sysvars, probe>>

NextRun ==
    \/ NextAttempts
    \/ Fails \/ Except \/ Returns \/ Finally

SpecRun == InitRun /\ [][NextRun]_vars

RunEnded == outcome.pc \in {"returned", "raised"}

\* C21: a failure of _run while use_cache is True is followed by exactly one nested
\* call made with use_cache False; the caller sees a failure only if that call fails
\* too; use_cache is True again once the nested call has ended either way; with
\* use_cache False the first failure reaches the caller and no nested call is made.
C21_RetryOnce ==
    /\ outcome.retries <= 1
    /\ outcome.nested => ~outcome.use_cache /\ outcome.retries = 1
    /\ outcome.retries = 1 => probe.use_cache /\ outcome.first # "none"
    /\ (probe.use_cache /\ outcome.failures >= 1 /\ outcome.pc # "except") =>
          outcome.retries = 1
    /\ RunEnded => outcome.use_cache = probe.use_cache
    /\ (outcome.pc = "raised" /\ probe.use_cache) =>
          outcome.retries = 1 /\ outcome.failures = 2
    /\ (outcome.pc = "raised" /\ ~probe.use_cache) =>
          outcome.retries = 0 /\ outcome.failures = 1 /\ outcome.exc = outcome.first
    /\ (outcome.pc = "returned" /\ outcome.failures >= 1) =>
          probe.use_cache /\ outcome.retries = 1 /\ outcome.failures = 1

C21_Witness ==
    /\ outcome.pc = "raised" /\ probe.use_cache /\ outcome.retries = 1
    /\ outcome.use_cache /\ outcome.exc # outcome.first

(***************************************************************************)
(* MultiStageEquilibrium.get_KTBs and set_KTBs.  A partition is a record   *)
(* of its K (one value per chemical), T, B and B_specification; the flat   *)
(* vector KTBs holds the K of every stage, then (with liquid-liquid        *)
(* equilibrium only) the T of every stage, then the B of every stage.      *)
(* probe is the cascade as constructed, outcome.partitions its partitions  *)
(* now, outcome.before those before the last call, outcome.KTBs the        *)
(* vector handed to set_KTBs by the last call.                             *)
(***************************************************************************)
N_chemicals == 2

isfinite(x) == x.d # 0

\* x <= 0., False for nan.
nonpositive(x) == ~isnan(x) /\ ~fless(Fl(0, 1), x)

infeasible_unless_finite(KTBs) == \E i \in DOMAIN KTBs : nonpositive(KTBs[i])

\* (KTBs <= 0.).any() or not np.isfinite(KTBs).all()
infeasible_KTBs(KTBs) ==
    \/ \E i \in DOMAIN KTBs : nonpositive(KTBs[i])
    \/ ~ \A i \in DOMAIN KTBs : isfinite(KTBs[i])

RECURSIVE flatten(_)
\* The rows of a two-dimensional array one after the other.
flatten(rows) == IF rows = <<>> THEN <<>> ELSE Head(rows) \o flatten(Tail(rows))

get_KTBs(partitions, lle) ==
    LET N_stages == Len(partitions)
        Ks == flatten([i \in 1..N_stages |-> partitions[i].K])
        Ts == IF lle THEN [i \in 1..N_stages |-> partitions[i].T] ELSE <<>>
        Bs == [i \in 1..N_stages |->
                  IF ~partitions[i].B_specification.given THEN partitions[i].B
                  ELSE Fl(0, 1)]
    IN  Ks \o Ts \o Bs

\* The partitions after set_KTBs(KTBs), and whether it raised.
set_KTBs(partitions, lle, KTBs) ==
    IF infeasible_KTBs(KTBs) THEN [raised |-> TRUE, partitions |-> partitions]
    ELSE LET N_stages == Len(partitions)
             N_flows == N_stages * N_chemicals
             K(i) == SubSeq(KTBs, (i - 1) * N_chemicals + 1, i * N_chemicals)
             Ts(i) == KTBs[N_flows + i]
             Bs(i) == KTBs[Len(KTBs) - N_stages + i]
         IN  [raised |-> FALSE,
              partitions |->
                 [i \in 1..N_stages |->
                     [partitions[i] EXCEPT
                        !.B = IF ~partitions[i].B_specification.given THEN Bs(i) ELSE @,
                        !.T = IF lle THEN Ts(i) ELSE @,
                        !.K = K(i)]]]

\* The stages as constructed: distinct positive values, and a phase ratio
\* specified on none, the top, the bottom or both of these stages.
Partition(i, specified) ==
    [K |-> [c \in 1..N_chemicals |-> Fl(i, c)], T |-> Fl(300 + i, 1),
     B |-> IF specified THEN Fl(3, 1) ELSE Fl(i, 3),
     B_specification |-> IF specified THEN Given(Fl(3, 1)) ELSE None]

Cascades_KTB ==
    { [lle |-> lle,
       partitions |-> [i \in 1..N |-> Partition(i, (i = 1 /\ top) \/ (i = N /\ bottom))]] :
      lle \in BOOLEAN, N \in 1..MaxStages, top \in BOOLEAN, bottom \in BOOLEAN }

\* The entries a vector may hold besides the feasible 7.
Infeasibles == {Fl(-1, 1), Fl(0, 1), inf, nan}

\* The vectors of a given length with an infeasible entry nowhere, in one place,
\* or in one place and the last.
Vectors(n) ==
    { [i \in 1..n |-> IF i \in {j, k} THEN x ELSE Fl(7, 1)] :
      j \in 0..n, k \in {0, n}, x \in Infeasibles }

InitKTB ==
    /\ InitSystemWith({IdleFlowsheet})
    /\ probe \in Cascades_KTB
    /\ outcome = [op |-> "none", raised |-> FALSE, KTBs |-> <<>>,
                  before |-> probe.partitions, partitions |-> probe.partitions]

\* set_KTBs on a vector of the right length.
SetKTBs ==
    /\ \E KTBs \in Vectors(Len(get_KTBs(probe.partitions, probe.lle))) :
          LET r == set_KTBs(outcome.partitions, probe.lle, KTBs)
          IN  outcome' = [op |-> "set_KTBs", raised |-> r.raised, KTBs |-> KTBs,
                          before |-> outcome.partitions, partitions |-> r.partitions]
    /\ UNCHANGED <<sysvars, probe>>

\* set_KTBs(get_KTBs()), as _iter does around the inside loop.
ResetKTBs ==
    /\ LET KTBs == get_KTBs(outcome.partitions, probe.lle)
           r == set_KTBs(outcome.partitions, probe.lle, KTBs)
       IN  outcome' = [op |-> "reset_KTBs", raised |-> r.raised, KTBs |-> KTBs,
                       before |-> outcome.partitions, partitions |-> r.partitions]
    /\ UNCHANGED <<sysvars, probe>>

NextKTB == SetKTBs \/ ResetKTBs

SpecKTB == InitKTB /\ [][NextKTB]_vars

\* An entry that is not positive or not finite.
BadEntry(x) == x.d = 0 \/ x.n <= 0

\* C22: set_KTBs raises for every vector with an entry that is not positive or not
\* finite, and then every partition is as it was before the call.
C22_Rejects ==
    (outcome.op = "set_KTBs" /\ \E i \in DOMAIN outcome.KTBs : BadEntry(outcome.KTBs[i])) =>
        outcome.raised /\ outcome.partitions = outcome.before

C22_Witness ==
    /\ outcome.op = "set_KTBs" /\ outcome.raised
    /\ \E i \in DOMAIN outcome.KTBs : outcome.KTBs[i] = nan
    /\ \A i \in DOMAIN outcome.KTBs : outcome.KTBs[i] # nan => outcome.KTBs[i] = Fl(7, 1)
    /\ outcome.before # probe.partitions

PositiveFinite(x) == x.d # 0 /\ x.n > 0

\* C28, as stated: on partitions whose K, T and B are all positive and finite,
\* set_KTBs(get_KTBs()) raises nothing and leaves every partition as it was.
C28_AsStated ==
    (/\ outcome.op = "reset_KTBs"
     /\ \A i \in DOMAIN outcome.before :
           /\ PositiveFinite(outcome.before[i].T) /\ PositiveFinite(outcome.before[i].B)
           /\ \A c \in 1..N_chemicals : PositiveFinite(outcome.before[i].K[c])) =>
        ~outcome.raised /\ outcome.partitions = outcome.before

(***************************************************************************)
(* Stage specifications through hot_start and _iter.  Only the B and T of  *)
(* each partition and their specifications are kept; what the             *)
(* thermodynamics computes (bubble points, flash phase fractions, energy   *)
(* balance departures) is drawn from small sets that contain the           *)
(* specified values as well.  probe is the column as constructed (two      *)
(* stages, both fed, so that the hot start is not collapsed), outcome the  *)
(* partitions now, the place reached (pc), the specification_index last    *)
(* handed to phase_ratio_departures, the exception raised, if any, and     *)
(* the number of iterates made so far (iter, at most MaxIter).             *)
(***************************************************************************)
\* _get_specification: the (B, T) of a stage specification.
get_specification(name, value) ==
    CASE name = "Reflux" ->
            [B |-> Given(IF value = Fl(0, 1) THEN inf ELSE fdiv(Fl(1, 1), value)), T |-> None]
      [] name = "Boilup" -> [B |-> Given(value), T |-> None]
      [] name = "Temperature" -> [B |-> None, T |-> Given(value)]
      [] OTHER -> [B |-> None, T |-> None]

\* StageEquilibrium.set_specification on a new partition.
set_specification(s) ==
    [B |-> s.B, B_specification |-> s.B, T |-> s.T, T_specification |-> s.T]

StageSpecifications ==
    { <<"Duty", Fl(0, 1)>>, <<"Boilup", Fl(3, 1)>>, <<"Reflux", inf>>,
      <<"Temperature", Fl(350, 1)>> }

\* What the thermodynamics may return.
BubblePoints == {Fl(320, 1), Fl(350, 1)}

FlashRatios == {Fl(1, 1), Fl(3, 1)}

Departures == {Fl(0, 1), Fl(1, 1)}

Columns ==
    [eq : {"vle", "lle"}, inside_out : BOOLEAN, K_data : BOOLEAN, use_cache : BOOLEAN,
     specifications : [1..2 -> StageSpecifications]]

has_specifications(column) ==
    \E i \in 1..2 : column.specifications[i][1] # "Duty"

\* The partitions after the hot start: B is the mixture's (or the hot-start phase
\* ratio), T the mixture's (or the stage's share of the bubble-to-dew range).
hot_start(column, partitions, B, T) ==
    [i \in DOMAIN partitions |->
        IF column.K_data \/ (column.eq = "vle" /\ has_specifications(column))
        THEN [partitions[i] EXCEPT
                 !.B = IF ~partitions[i].B_specification.given THEN Given(B) ELSE @,
                 !.T = Given(T[i])]
        ELSE [partitions[i] EXCEPT !.B = Given(B), !.T = Given(T[i])]]

\* if j.B_specification: specification_index.append(i)
departure_specification_index(partitions) ==
    {i \in DOMAIN partitions : truthy(partitions[i].B_specification)}

\* if j.B_specification is not None: specification_index.append(i)
inside_specification_index(partitions) ==
    {i \in DOMAIN partitions : partitions[i].B_specification.given}

\* update_energy_balance_phase_ratios: if i.B_specification is None: i.B += dB
update_energy_balance_phase_ratios(partitions, dBs) ==
    [i \in DOMAIN partitions |->
        IF ~partitions[i].B_specification.given
        THEN [partitions[i] EXCEPT !.B = Given(fadd(@.v, dBs[i]))]
        ELSE partitions[i]]

\* _run_decoupled_KTvle on the stages whose outlets are not empty: self.T = p.T
run_decoupled_KTvle(partitions, run, T) ==
    [i \in DOMAIN partitions |->
        IF i \in run THEN [partitions[i] EXCEPT !.T = Given(T[i])] ELSE partitions[i]]

\* _run_decoupled_B on the stages whose phase fraction is within (0, 1):
\* self.B = phi / (1 - phi)
run_decoupled_B(partitions, run, B) ==
    [i \in DOMAIN partitions |->
        IF i \in run THEN [partitions[i] EXCEPT !.B = Given(B)] ELSE partitions[i]]

\* update_energy_balance_temperatures: the departures need N_stages, which
\* get_energy_balance_temperature_departures binds only when no stage has a T
\* specification.
update_energy_balance_temperatures(partitions, dTs) ==
    IF \A i \in DOMAIN partitions : ~partitions[i].T_specification.given
    THEN [raised |-> "none",
          partitions |-> [i \in DOMAIN partitions |->
                            [partitions[i] EXCEPT !.T = Given(fadd(@.v, dTs[i]))]]]
    ELSE [raised |-> "UnboundLocalError", partitions |-> partitions]

\* The inside-out step: get_KTBs, the inside loop (which leaves the 0 of a specified
\* stage as it is and finds B for the others) and set_KTBs.
inside_out_step(partitions, B) ==
    IF inside_specification_index(partitions) # {}
    THEN [raised |-> "RuntimeError", partitions |-> partitions]
    ELSE [raised |-> "none",
          partitions |-> [i \in DOMAIN partitions |-> [partitions[i] EXCEPT !.B = Given(B)]]]

InitHold ==
    /\ InitSystemWith({IdleFlowsheet})
    /\ probe \in Columns
    /\ outcome = [pc |-> "constructed", raised |-> "none", specification_index |-> {},
                  iter |-> 0,
                  partitions |->
                     [i \in 1..2 |-> set_specification(
                         get_specification(probe.specifications[i][1],
                                           probe.specifications[i][2]))]]

\* hot_start at the head of _run; with use_cache and partitions that ran before,
\* the last set of data is used as it is.
HotStart ==
    /\ outcome.pc \in {"constructed", "iterated"}
    /\ \/ /\ probe.use_cache /\ outcome.pc = "iterated"
          /\ outcome' = [outcome EXCEPT !.pc = "hot_started"]
       \/ \E B \in FlashRatios, T \in [1..2 -> BubblePoints] :
             outcome' = [outcome EXCEPT
                            !.pc = "hot_started",
                            !.partitions = hot_start(probe, outcome.partitions, B, T)]
    /\ UNCHANGED <<sysvars, probe>>

\* _iter(top_flow_rates) on vapor-liquid stages.
IterVLE ==
    /\ outcome.pc \in {"hot_started", "iterated"} /\ probe.eq = "vle"
    /\ outcome.iter < MaxIter
    /\ \E run \in SUBSET (1..2), T \in [1..2 -> BubblePoints],
          dBs \in [1..2 -> Departures], B \in FlashRatios :
          LET bubbled == run_decoupled_KTvle(outcome.partitions, run, T)
              index == departure_specification_index(bubbled)
              balanced == update_energy_balance_phase_ratios(
                             bubbled, [i \in 1..2 |-> IF i \in index THEN Fl(0, 1) ELSE dBs[i]])
              inside == IF probe.inside_out THEN inside_out_step(balanced, B)
                        ELSE [raised |-> "none", partitions |-> balanced]
          IN  outcome' = [pc |-> IF inside.raised = "none" THEN "iterated" ELSE "raised",
                          raised |-> inside.raised, specification_index |-> index,
                          iter |-> outcome.iter + 1,
                          partitions |-> inside.partitions]
    /\ UNCHANGED <<sysvars, probe>>

\* _iter(top_flow_rates) on liquid-liquid stages.
IterLLE ==
    /\ outcome.pc \in {"hot_started", "iterated"} /\ probe.eq = "lle"
    /\ outcome.iter < MaxIter
    /\ \E run \in SUBSET (1..2), B \in FlashRatios, dTs \in [1..2 -> Departures] :
          LET flashed == run_decoupled_B(outcome.partitions, run, B)
              balanced == update_energy_balance_temperatures(flashed, dTs)
          IN  outcome' = [pc |-> IF balanced.raised = "none" THEN "iterated" ELSE "raised",
                          raised |-> balanced.raised,
                          specification_index |-> outcome.specification_index,
                          iter |-> outcome.iter + 1,
                          partitions |-> balanced.partitions]
    /\ UNCHANGED <<sysvars, probe>>

NextHold == HotStart \/ IterVLE \/ IterLLE

SpecHold == InitHold /\ [][NextHold]_vars

\* C23, as stated: after the hot start and after every iterate, a stage with a
\* specified B has that B and is in the specification_index of the phase-ratio
\* departures, and a stage with a specified T has that T.
C23_AsStated ==
    outcome.pc \in {"hot_started", "iterated"} =>
        \A i \in DOMAIN outcome.partitions :
            LET p == outcome.partitions[i]
            IN  /\ p.B_specification.given => p.B = p.B_specification
                /\ (p.B_specification.given /\ probe.eq = "vle" /\ outcome.pc = "iterated") =>
                       i \in outcome.specification_index
                /\ p.T_specification.given => p.T = p.T_specification

(***************************************************************************)
(* mass_balance on the flows of every component, as inside_loop calls it   *)
(* (every stage still to be corrected) and as update_mass_balance does     *)
(* through set_flow_rates (no stage to be corrected).  probe holds a       *)
(* cascade without side draws fed on one stage with every component: the   *)
(* phase ratio of each stage, the partition coefficient of each component  *)
(* (component 1 leaves mostly in the top phase), and the error the         *)
(* floating-point elimination leaves on one top flow.  The numbers here    *)
(* are exact, so the error is a choice; it is wider than the 2^-53 of a    *)
(* double by as much as the partition coefficient is smaller than the 1e8  *)
(* at which a double shows a negative row.                                 *)
(***************************************************************************)
FedFlow == Fl(10, 1)

RoundingErrors == {Fl(-1, 2), Fl(1, 2)}

PartitionCoefficient(c) == IF c = 1 THEN Fl(4, 1) ELSE Fl(c - 1, 1)

Roundings(n) ==
    {[stage |-> 0, chemical |-> 1, error |-> Fl(0, 1)]}
        \cup [stage : 1..n, chemical : 1..N_chemicals, error : RoundingErrors]

BalanceCascades ==
    UNION {[N_stages : {n}, B : [1..n -> {One, Fl(2, 1)}], feed_stage : 1..n,
            top_split : {Fl(0, 1)}, bottom_split : {Fl(0, 1)},
            rounding : Roundings(n)] :
           n \in 2..MaxStages}

\* self.feed_flows, by stage and component.
feed_flows ==
    [k \in 1..probe.N_stages |->
        [c \in 1..N_chemicals |-> IF k = probe.feed_stage THEN FedFlow ELSE Fl(0, 1)]]

\* The top flows of every component, by stage and component, from the phase
\* ratios and partition coefficients of the stages, with the error of the
\* elimination on the one entry probe.rounding names.
rounded_top_flow_rates ==
    LET by_chemical ==
            [c \in 1..N_chemicals |->
                LET f == bottoms_stripping_factors_safe(
                             probe.B, [k \in 1..probe.N_stages |-> PartitionCoefficient(c)])
                IN  top_flow_rates(f.Sb, [k \in 1..probe.N_stages |-> feed_flows[k][c]],
                                   asplit_1, bsplit_1, probe.N_stages, f.safe)]
        r == probe.rounding
    IN  [k \in 1..probe.N_stages |->
            [c \in 1..N_chemicals |->
                IF k = r.stage /\ c = r.chemical
                THEN fadd(by_chemical[c][k], r.error)
                ELSE by_chemical[c][k]]]

InitBalance ==
    /\ InitSystemWith({IdleFlowsheet})
    /\ probe \in BalanceCascades
    /\ outcome = [pc |-> "new"]

\* inside_loop, as far as its flows: top_flow_rates, then mass_balance with
\* correct_stages.copy() of np.ones(N_stages, bool).
InsideLoop ==
    /\ outcome.pc = "new"
    /\ \E m \in mass_balance(rounded_top_flow_rates, feed_flows, asplit_left, bsplit_left,
                             [k \in 1..probe.N_stages |-> TRUE]) :
          outcome' = [pc |-> "inside", top_flows |-> m.top_flows,
                      bottom_flows |-> m.bottom_flows,
                      correct_stages |-> m.correct_stages]
    /\ UNCHANGED <<sysvars, probe>>

\* update_mass_balance: set_flow_rates(run_mass_balance()), on every component.
UpdateMassBalance ==
    /\ outcome.pc = "new"
    /\ LET top == [k \in 1..probe.N_stages |->
                      [c \in 1..N_chemicals |-> clip(rounded_top_flow_rates[k][c])]]
       IN  \E m \in mass_balance(top, feed_flows, asplit_left, bsplit_left,
                                 [k \in 1..probe.N_stages |-> FALSE]) :
              outcome' = [pc |-> "set", top_flows |-> top,
                          bottom_flows |-> [k \in 1..probe.N_stages |->
                                               [c \in 1..N_chemicals |->
                                                   clip(m.bottom_flows[k][c])]],
                          correct_stages |-> m.correct_stages]
    /\ UNCHANGED <<sysvars, probe>>

NextBalance == InsideLoop \/ UpdateMassBalance

SpecBalance == InitBalance /\ [][NextBalance]_vars

\* Stage k was corrected by mass_balance.
Corrected(k) == ~outcome.correct_stages[k]

\* bottom_i = feed_i + bsplit_left[i-1]*bottom_(i-1) + asplit_left[i+1]*top_(i+1)
\* - top_i for component c on stage i of the flows held in outcome.
StageBalance(i, c) ==
    outcome.bottom_flows[i][c]
        = fsub(fadd(fadd(feed_flows[i][c],
                         IF i = 1 THEN Fl(0, 1)
                         ELSE fmul(bsplit_left[i - 1], outcome.bottom_flows[i - 1][c])),
                    IF i = probe.N_stages THEN Fl(0, 1)
                    ELSE fmul(asplit_left[i + 1], outcome.top_flows[i + 1][c])),
               outcome.top_flows[i][c])

\* As C26 has it: the bottom flows mass_balance returns are not negative, and
\* after it corrected a negative flow of a stage the returned flows satisfy, on
\* every stage i, bottom_i = feed_i + bsplit_left[i-1]*bottom_(i-1)
\* + asplit_left[i+1]*top_(i+1) - top_i.
C26_AsStated ==
    outcome.pc # "new" =>
        /\ \A k \in 1..probe.N_stages, c \in 1..N_chemicals :
              ~fless(outcome.bottom_flows[k][c], Fl(0, 1))
        /\ (\E k \in 1..probe.N_stages : Corrected(k)) =>
              \A i \in 1..probe.N_stages, c \in 1..N_chemicals : StageBalance(i, c)

(***************************************************************************)
(* recycle and N_runs of a System: the constructor, the two setters,       *)
(* copy_like, flatten, and the branch _converge takes.  outcome holds, for *)
(* each of two Systems, _recycle (None, a Stream, or the set or tuple of   *)
(* Streams given), _N_runs, whether its path holds the subsystem `inner`   *)
(* (which has a recycle of its own and neither facilities nor a            *)
(* specification), and by how much flatten has multiplied its tolerances;  *)
(* then the exception and the _converge branch of the last call.           *)
(***************************************************************************)
LoopSystems == {"upstream", "downstream"}

NoRecycle == [kind |-> "None", streams |-> {}]

AStream(x) == [kind |-> "Stream", streams |-> {x}]

\* What a caller may hand to the recycle setter and the constructor: None, a
\* Stream, an iterable of Streams (empty or not), an iterable with something
\* that is no Stream in it, and something that is none of these.
RecycleArguments ==
    {NoRecycle, AStream("s1"),
     [kind |-> "Iterable", streams |-> {}],
     [kind |-> "Iterable", streams |-> {"s1", "s2"}],
     [kind |-> "Iterable", streams |-> {"s1", "no Stream"}],
     [kind |-> "other", streams |-> {}]}

N_runsArguments == {None} \cup {Given(Rat(n, 1)) : n \in 0..MaxCalls}

inner_recycle == AStream("s3")

\* if self._recycle: None and an empty set or tuple are false.
has_recycle(sys) ==
    sys.recycle.kind = "Stream" \/ (sys.recycle.kind \in {"set", "tuple"}
                                      /\ sys.recycle.streams # {})

\* The recycle setter; the record has the System and the exception raised.
set_recycle(sys, given) ==
    LET cleared == [sys EXCEPT !.N_runs = None]
    IN  IF given.kind \in {"None", "Stream"}
        THEN [sys |-> [cleared EXCEPT !.recycle = given], raised |-> "none"]
        ELSE IF given.kind = "Iterable"
        THEN IF "no Stream" \in given.streams
             THEN [sys |-> cleared, raised |-> "ValueError"]
             ELSE [sys |-> [cleared EXCEPT !.recycle = [kind |-> "set",
                                                        streams |-> given.streams]],
                   raised |-> "none"]
        ELSE [sys |-> cleared, raised |-> "TypeError"]

\* The N_runs setter.
set_N_runs(sys, runs) ==
    [sys EXCEPT !.recycle = IF truthy(runs) THEN NoRecycle ELSE @,
                !.N_runs = runs]

\* copy_like: _path and _recycle of the other (and _facilities, _facility_loop
\* and _connections, which are not held here).
copy_like(sys, other) ==
    [sys EXCEPT !.holds_inner = other.holds_inner, !.recycle = other.recycle]

\* flatten: the recycles of the System and of the subsystems taken into its
\* path become its _recycle, a tuple, and both tolerances are multiplied by
\* their number.
System_flatten(sys) ==
    LET recycles == (IF has_recycle(sys) THEN sys.recycle.streams ELSE {})
                        \cup (IF sys.holds_inner THEN inner_recycle.streams ELSE {})
    IN  [sys EXCEPT !.holds_inner = FALSE,
                    !.recycle = [kind |-> "tuple", streams |-> recycles],
                    !.tolerances = @ * Cardinality(recycles)]

\* _converge: which of its three branches is taken.
converge_branch(sys) ==
    IF truthy(sys.N_runs) THEN "N_runs"
    ELSE IF has_recycle(sys) THEN "_converge_method"
    ELSE "_run"

\* System(ID, path, recycle, ..., N_runs=N_runs): self.recycle = recycle, then
\* self.N_runs = N_runs; a constructor that raises gives no System.
Constructed ==
    {set_N_runs(set_recycle([recycle |-> NoRecycle, N_runs |-> None,
                             holds_inner |-> h, tolerances |-> 1], r).sys, n) :
       h \in BOOLEAN, n \in N_runsArguments,
       r \in {a \in RecycleArguments : a.kind # "other" /\ "no Stream" \notin a.streams}}

InitLoop ==
    /\ InitSystemWith({IdleFlowsheet})
    /\ probe = [calls |-> MaxCalls]
    /\ \E sys \in [LoopSystems -> Constructed] :
          outcome = [sys |-> sys, calls |-> 0, raised |-> "none",
                     converged |-> "upstream", branch |-> "none"]

\* system.recycle = recycle
SetRecycle ==
    /\ outcome.calls < probe.calls
    /\ \E x \in LoopSystems, given \in RecycleArguments :
          LET r == set_recycle(outcome.sys[x], given)
          IN  outcome' = [outcome EXCEPT !.sys[x] = r.sys, !.raised = r.raised,
                                         !.calls = @ + 1, !.branch = "none"]
    /\ UNCHANGED <<sysvars, probe>>

\* system.N_runs = N_runs
SetN_runs ==
    /\ outcome.calls < probe.calls
    /\ \E x \in LoopSystems, runs \in N_runsArguments :
          outcome' = [outcome EXCEPT !.sys[x] = set_N_runs(@, runs), !.raised = "none",
                                     !.calls = @ + 1, !.branch = "none"]
    /\ UNCHANGED <<sysvars, probe>>

\* system.copy_like(other)
CopyLike ==
    /\ outcome.calls < probe.calls
    /\ \E x \in LoopSystems : \E other \in LoopSystems \ {x} :
          outcome' = [outcome EXCEPT !.sys[x] = copy_like(@, outcome.sys[other]),
                                     !.raised = "none",
                                     !.calls = @ + 1, !.branch = "none"]
    /\ UNCHANGED <<sysvars, probe>>

\* system.flatten()
Flatten ==
    /\ outcome.calls < probe.calls
    /\ \E x \in LoopSystems :
          outcome' = [outcome EXCEPT !.sys[x] = System_flatten(@), !.raised = "none",
                                     !.calls = @ + 1, !.branch = "none"]
    /\ UNCHANGED <<sysvars, probe>>

\* system._converge(), as far as the choice of its branch.
ConvergeBranch ==
    /\ outcome.calls < probe.calls
    /\ \E x \in LoopSystems :
          outcome' = [outcome EXCEPT !.converged = x,
                                     !.branch = converge_branch(outcome.sys[x]),
                                     !.raised = "none", !.calls = @ + 1]
    /\ UNCHANGED <<sysvars, probe>>

NextLoop == SetRecycle \/ SetN_runs \/ CopyLike \/ Flatten \/ ConvergeBranch

SpecLoop == InitLoop /\ [][NextLoop]_vars

\* As C27 has it: after any sequence of construction, assignments to recycle
\* and to N_runs, copy_like and flatten, no System has both a non-empty recycle
\* and a non-zero N_runs, and _converge never takes the N_runs branch of a
\* System that has a recycle.
C27_AsStated ==
    /\ \A x \in LoopSystems :
          ~(has_recycle(outcome.sys[x]) /\ truthy(outcome.sys[x].N_runs))
    /\ outcome.branch = "N_runs" => ~has_recycle(outcome.sys[outcome.converged])

(***************************************************************************)
(* ConvergencePredictionModel.practice: `with model.practice(case): body`. *)
(* probe holds the model's local_weighted, recess and nfits and the number *)
(* of samples load_responses recorded; outcome holds self.data, fitted,    *)
(* the value each response has, the case study of the session under way,   *)
(* the data as they were when it was entered, the number of practice       *)
(* samples recorded and what the last session raised.  Values are held by  *)
(* what made them: "loaded", "simulated", "predicted".                     *)
(***************************************************************************)
PracticeResponses == {"r1", "r2"}

PredictionModels ==
    [local_weighted : BOOLEAN, recess : 0..1, nfits : {None, Given(Rat(1, 1))},
     loaded : 1..2]

\* load_responses: extend_data(samples, values) on the empty data.
loaded_data(n) ==
    [samples |-> [k \in 1..n |-> "loaded"],
     case_studies |-> <<>>,
     actual |-> [r \in PracticeResponses |-> [k \in 1..n |-> "loaded"]],
     predicted |-> [r \in PracticeResponses |-> <<>>],
     null |-> [r \in PracticeResponses |-> <<>>]]

\* __enter__: data, fitted and the responses after it.
enter(model, data, fitted, value, case_study) ==
    LET n_samples == Len(data.samples)
        refit == /\ ~model.local_weighted
                 /\ n_samples % (model.recess + 1) = 0
                 /\ model.nfits.given
                 /\ fitted < model.nfits.v.n
        now_fitted == IF refit THEN fitted + 1 ELSE fitted
        predicts == model.local_weighted \/ refit \/ fitted > 0
    IN  [data |-> [data EXCEPT
                     !.null = [r \in PracticeResponses |-> Append(@[r], value[r])],
                     !.predicted = [r \in PracticeResponses |->
                                       Append(@[r], IF predicts THEN "predicted"
                                                    ELSE value[r])],
                     !.case_studies = Append(@, n_samples),
                     !.samples = Append(@, case_study)],
         fitted |-> now_fitted,
         value |-> [r \in PracticeResponses |-> IF predicts THEN "predicted" ELSE value[r]]]

\* __exit__ with no exception: the value of every response is appended to actual.
exit_returns(data, value) ==
    [data EXCEPT !.actual = [r \in PracticeResponses |-> Append(@[r], value[r])]]

\* __exit__ with an exception: del samples[-1]; raise exception.
exit_raises(data) ==
    [data EXCEPT !.samples = SubSeq(@, 1, Len(@) - 1)]

InitPractice ==
    /\ InitSystemWith({IdleFlowsheet})
    /\ probe \in PredictionModels
    /\ outcome = [data |-> loaded_data(probe.loaded), fitted |-> 0,
                  value |-> [r \in PracticeResponses |-> "loaded"],
                  pc |-> "out", before |-> loaded_data(probe.loaded),
                  recorded |-> 0, sessions |-> 0, raised |-> "none"]

\* with model.practice(case_study): __enter__
PracticeEnter ==
    /\ outcome.pc = "out" /\ outcome.sessions < MaxCalls + 1
    /\ LET e == enter(probe, outcome.data, outcome.fitted, outcome.value, "case")
       IN  outcome' = [outcome EXCEPT !.pc = "body", !.before = outcome.data,
                                      !.data = e.data, !.fitted = e.fitted,
                                      !.value = e.value, !.sessions = @ + 1,
                                      !.raised = "none"]
    /\ UNCHANGED <<sysvars, probe>>

\* The body simulates and returns: __exit__(None, None, None).
PracticeReturns ==
    /\ outcome.pc = "body"
    /\ LET value == [r \in PracticeResponses |-> "simulated"]
       IN  outcome' = [outcome EXCEPT !.pc = "out", !.value = value,
                                      !.data = exit_returns(@, value),
                                      !.recorded = @ + 1]
    /\ UNCHANGED <<sysvars, probe>>

\* The body raises: __exit__(type, exception, traceback).
PracticeRaises ==
    /\ outcome.pc = "body"
    /\ outcome' = [outcome EXCEPT !.pc = "out", !.data = exit_raises(@),
                                  !.raised = "RuntimeError"]
    /\ UNCHANGED <<sysvars, probe>>

NextPractice == PracticeEnter \/ PracticeReturns \/ PracticeRaises

SpecPractice == InitPractice /\ [][NextPractice]_vars

\* As C30 has it: after any sequence of practice sessions, whether the body
\* returns or raises, samples is as long as actual[r] for every response r,
\* null, predicted and case studies hold one entry per recorded practice
\* sample, and a session whose body raised has left the data as they were
\* before it was entered.
C30_AsStated ==
    outcome.pc = "out" =>
        /\ \A r \in PracticeResponses :
              /\ Len(outcome.data.samples) = Len(outcome.data.actual[r])
              /\ Len(outcome.data.null[r]) = outcome.recorded
              /\ Len(outcome.data.predicted[r]) = outcome.recorded
        /\ Len(outcome.data.case_studies) = outcome.recorded
        /\ outcome.raised # "none" => outcome.data = outcome.before

=============================================================================
